---- MODULE Spec2Model ----
(***************************************************************************)
(* PipelineGuardian: asset-type dispatch, the static-mesh rule catalog,    *)
(* the profile store, the two-phase scan orchestrator of                   *)
(* SPipelineGuardianWindow and the fix batch of the report view.           *)
(***************************************************************************)
EXTENDS Integers, Sequences, FiniteSets, TLC

VARIABLES
  bIsAnalysisInProgress,   \* SPipelineGuardianWindow::bIsAnalysisInProgress
  StatusText,              \* the text SetAnalysisInProgress gave StatusTextBlock
  LastAnalysisMode,        \* SPipelineGuardianWindow::LastAnalysisMode
  LastAnalysisParameters,  \* SPipelineGuardianWindow::LastAnalysisParameters
  AssetAnalyzersMap,       \* FAssetScanner::AssetAnalyzersMap (class -> analyzer)
  task,                    \* the started FAssetScanTask, or NoTask
  signal,                  \* the continuation queued for the game thread, or NoSignal
  gt,                      \* the locals of the running game-thread continuation
  AllResults,              \* SPipelineGuardianReportView::AllResults
  DisplayedResults,        \* ...::DisplayedResults (positions in AllResults)
  SelectionState,          \* ...::SelectionState (positions mapped to true)
  CurrentSeverityFilter,   \* ...::CurrentSeverityFilter
  Settings,                \* the UPipelineGuardianSettings default object
  meshes,                  \* the static meshes of the repository
  hist,                    \* history of the current scan
  fixLog,                  \* history of the FixActions executed
  edits,                   \* number of selection, filter and settings edits
  prof,                    \* profile store: the profile exported
  json,                    \* profile store: the document, or NoDocument
  target,                  \* profile store: the profile imported into
  rc,                      \* rule catalog: the inputs and outputs of one Check
  dz                       \* dispatch: the inputs and outputs of one AnalyzeSingleAsset

vars == << bIsAnalysisInProgress, StatusText, LastAnalysisMode,
           LastAnalysisParameters, AssetAnalyzersMap, task, signal, gt,
           AllResults, DisplayedResults, SelectionState,
           CurrentSeverityFilter, Settings, meshes, hist, fixLog, edits,
           prof, json, target, rc, dz >>

winVars    == << bIsAnalysisInProgress, StatusText, LastAnalysisMode,
                 LastAnalysisParameters >>
reportVars == << AllResults, DisplayedResults, SelectionState,
                 CurrentSeverityFilter >>
scanVars   == << winVars, task, signal, gt, reportVars, Settings, meshes,
                 hist, fixLog, edits >>
profVars   == << prof, json, target >>

(***************************************************************************)
(* Bounds of the model.                                                    *)
(***************************************************************************)
MaxScans         == 2   \* scan requests accepted in one behaviour
MaxRegistrations == 2   \* RegisterAssetAnalyzer calls after Construct
MaxFixBatches    == 1   \* confirmed fix batches in one behaviour
MaxRepeats       == 1   \* further fix batches on a report that had one
MaxEdits         == 1   \* selection, filter and settings edits in one behaviour
MaxRuleConfigs   == 2   \* length of RuleConfigs drawn for the profile store

(***************************************************************************)
(* Sequence helpers.                                                       *)
(***************************************************************************)
Range(s) == { s[i] : i \in DOMAIN s }

\* The element of a one-element set.
Only(S) == CHOOSE x \in S : TRUE

\* The concatenation of the sequences ss[i], ss[i+1], ...
RECURSIVE FlattenFrom(_, _)
FlattenFrom(ss, i) ==
  IF i > Len(ss) THEN << >> ELSE ss[i] \o FlattenFrom(ss, i + 1)

Flatten(ss) == Only({ FlattenFrom(v, 1) : v \in { ss } })

\* TArray::AddUnique applied to every element in order.
RECURSIVE AddUniqueAll(_, _)
AddUniqueAll(acc, s) ==
  IF s = << >> THEN acc
  ELSE AddUniqueAll(IF Head(s) \in Range(acc) THEN acc
                    ELSE Append(acc, Head(s)), Tail(s))

(***************************************************************************)
(* EAssetIssueSeverity: the numeric order of the enumerators.              *)
(***************************************************************************)
Critical == 0
Error    == 1
Warning  == 2
Info     == 3
Severities == { Critical, Error, Warning, Info }

\* SeverityToText, as used by the severity filter of the report view.
SeverityToText(s) ==
  CASE s = Critical -> "Critical"
    [] s = Error    -> "Error"
    [] s = Warning  -> "Warning"
    [] s = Info     -> "Info"
    [] OTHER        -> "Unknown"

(***************************************************************************)
(* FName: NAME_None prints as "None"; the empty string names NAME_None.    *)
(***************************************************************************)
NAME_None == "None"
FNameFromString(s) == IF s = "" THEN NAME_None ELSE s
FNameToString(n)   == n

(***************************************************************************)
(* FCString::Atoi / Atof on the parameter strings that occur (0 where the  *)
(* text holds no number), and FString::FromInt for the values written.     *)
(***************************************************************************)
Atoi(s) ==
  CASE s = "1" -> 1 [] s = "2" -> 2 [] s = "3" -> 3 [] s = "4" -> 4
    [] OTHER -> 0

Atof(s) ==
  CASE s = "2.0"  -> 2  [] s = "5.0"  -> 5  [] s = "8.0"  -> 8
    [] s = "10.0" -> 10 [] s = "15.0" -> 15 [] s = "20.0" -> 20
    [] s = "30.0" -> 30 [] s = "50.0" -> 50 [] s = "53.0" -> 53
    [] s = "90.0" -> 90 [] s = "95.0" -> 95 [] s = "100.0" -> 100
    [] OTHER -> Atoi(s)

FromInt(n) ==
  CASE n = 1 -> "1" [] n = 2 -> "2" [] n = 3 -> "3" [] n = 4 -> "4"
    [] OTHER -> "0"

BoolText(b) == IF b THEN "true" ELSE "false"

(***************************************************************************)
(* UPipelineGuardianProfile.  RuleConfigs is a sequence of                 *)
(* [RuleID, bEnabled, Parameters]; Parameters maps keys to strings.        *)
(***************************************************************************)
NoParams == [k \in {} |-> ""]

RuleConfig(id, enabled, params) ==
  [RuleID |-> id, bEnabled |-> enabled, Parameters |-> params]

\* RuleConfigs.FindByPredicate: index of the first entry with that RuleID, or 0.
FindIndex(configs, id) ==
  IF \E i \in DOMAIN configs : configs[i].RuleID = id
  THEN CHOOSE i \in DOMAIN configs :
         /\ configs[i].RuleID = id
         /\ \A j \in DOMAIN configs : configs[j].RuleID = id => i <= j
  ELSE 0

GetRuleConfigPtr(p, id) == FindIndex(p.RuleConfigs, id)

SetRuleConfig(p, cfg) ==
  LET i == FindIndex(p.RuleConfigs, cfg.RuleID)
  IN  IF i # 0 THEN [p EXCEPT !.RuleConfigs[i] = cfg]
      ELSE [p EXCEPT !.RuleConfigs = Append(@, cfg)]

IsRuleEnabled(p, id) ==
  LET i == GetRuleConfigPtr(p, id)
  IN  IF i # 0 THEN p.RuleConfigs[i].bEnabled ELSE FALSE

GetRuleParameter(p, id, name, default) ==
  LET i == GetRuleConfigPtr(p, id)
  IN  IF i # 0 /\ name \in DOMAIN p.RuleConfigs[i].Parameters
      THEN p.RuleConfigs[i].Parameters[name]
      ELSE default

\* SetRuleConfig for each element of cfgs in turn.
RECURSIVE SetRuleConfigs(_, _)
SetRuleConfigs(p, cfgs) ==
  IF cfgs = << >> THEN p
  ELSE Only({ SetRuleConfigs(q, Tail(cfgs)) :
                q \in { SetRuleConfig(p, Head(cfgs)) } })

\* A parameter map written as a sequence of <<key, value>> pairs
\* (TMap::Add: a later pair for the same key replaces the earlier one).
Params(pairs) ==
  [k \in { pairs[i][1] : i \in DOMAIN pairs } |->
     LET last == CHOOSE i \in DOMAIN pairs :
                   /\ pairs[i][1] = k
                   /\ \A j \in DOMAIN pairs : pairs[j][1] = k => j <= i
     IN  pairs[last][2]]

\* The rule set seeded by the constructor.
InitializeDefaultRules(p) ==
  SetRuleConfigs(p, <<
    RuleConfig("SM_Naming", TRUE, Params(<< <<"NamingPattern", "SM_*">> >>)),
    RuleConfig("SM_LODMissing", TRUE, NoParams),
    RuleConfig("SM_LODPolyReduction", TRUE, Params(<<
      <<"MinReductionPercentage", "30.0">>,
      <<"WarningThreshold", "20.0">>,
      <<"ErrorThreshold", "10.0">> >>)),
    RuleConfig("SM_UVOverlapping", TRUE, Params(<<
      <<"Severity", "Warning">>,
      <<"CheckUVChannel0", "true">>,
      <<"CheckUVChannel1", "true">>,
      <<"CheckUVChannel2", "false">>,
      <<"CheckUVChannel3", "false">>,
      <<"TextureUVTolerance", "0.001">>,
      <<"LightmapUVTolerance", "0.0005">>,
      <<"TextureWarningThreshold", "5.0">>,
      <<"TextureErrorThreshold", "15.0">>,
      <<"LightmapWarningThreshold", "2.0">>,
      <<"LightmapErrorThreshold", "8.0">>,
      <<"AllowAutoFix", "true">> >>)),
    RuleConfig("SM_TriangleCount", TRUE, Params(<<
      <<"Severity", "Warning">>,
      <<"WarningThreshold", "50000">>,
      <<"ErrorThreshold", "100000">>,
      <<"AllowAutoFix", "true">>,
      <<"PerformanceLODReductionTarget", "60.0">> >>)) >>)

NewProfile ==
  InitializeDefaultRules([ProfileName |-> "Default Profile",
                          Description |-> "Default Pipeline Guardian profile",
                          Version |-> 1,
                          RuleConfigs |-> << >>])

(***************************************************************************)
(* UPipelineGuardianSettings: the fields the analysis reads, with the      *)
(* constructor's defaults.                                                 *)
(***************************************************************************)
DefaultSettings ==
  [ bMasterSwitch_EnableAnalysis             |-> TRUE,
    bEnableStaticMeshNamingRule              |-> TRUE,
    StaticMeshNamingPattern                  |-> "SM_*",
    bEnableStaticMeshLODRule                 |-> TRUE,
    MinRequiredLODs                          |-> 3,
    bEnableStaticMeshLightmapUVRule          |-> TRUE,
    LightmapUVIssueSeverity                  |-> Warning,
    bAllowLightmapUVAutoFix                  |-> TRUE,
    bEnableStaticMeshUVOverlappingRule       |-> TRUE,
    bCheckUVChannel0                         |-> TRUE,
    bCheckUVChannel1                         |-> TRUE,
    bCheckUVChannel2                         |-> FALSE,
    bCheckUVChannel3                         |-> FALSE,
    TextureUVOverlapWarningThreshold         |-> 5,
    TextureUVOverlapErrorThreshold           |-> 15,
    LightmapUVOverlapWarningThreshold        |-> 2,
    LightmapUVOverlapErrorThreshold          |-> 8,
    bEnableStaticMeshTriangleCountRule       |-> TRUE,
    TriangleCountBaseThreshold               |-> 50000,
    TriangleCountWarningPercentage           |-> 20,
    TriangleCountErrorPercentage             |-> 50,
    bEnableStaticMeshDegenerateFacesRule     |-> TRUE,
    DegenerateFacesWarningThreshold          |-> 1,
    DegenerateFacesErrorThreshold            |-> 5,
    bAllowDegenerateFacesAutoFix             |-> TRUE,
    bEnableStaticMeshCollisionMissingRule    |-> TRUE,
    CollisionMissingIssueSeverity            |-> Error,
    bAllowCollisionMissingAutoFix            |-> TRUE,
    bEnableStaticMeshCollisionComplexityRule |-> TRUE,
    CollisionComplexityWarningThreshold      |-> 15,
    CollisionComplexityErrorThreshold        |-> 25,
    bTreatUseComplexAsSimpleAsError          |-> TRUE,
    bAllowCollisionComplexityAutoFix         |-> TRUE,
    bEnableStaticMeshNaniteSuitabilityRule   |-> TRUE,
    NaniteSuitabilityIssueSeverity           |-> Warning,
    bAllowNaniteSuitabilityAutoFix           |-> TRUE,
    bEnableStaticMeshMaterialSlotRule        |-> TRUE,
    MaterialSlotIssueSeverity                |-> Warning,
    MaterialSlotWarningThreshold             |-> 4,
    MaterialSlotErrorThreshold               |-> 6,
    bAllowMaterialSlotAutoFix                |-> TRUE,
    bEnableStaticMeshVertexColorMissingRule  |-> TRUE,
    VertexColorMissingIssueSeverity          |-> Warning,
    bAllowVertexColorMissingAutoFix          |-> FALSE,
    bEnableVertexColorUnusedChannelRule      |-> TRUE,
    VertexColorUnusedChannelIssueSeverity    |-> Warning,
    bEnableVertexColorChannelValidation      |-> FALSE,
    RequiredVertexColorChannels              |-> "Mask,Detail",
    bEnableStaticMeshTransformPivotRule      |-> TRUE,
    TransformPivotIssueSeverity              |-> Warning,
    bEnableZeroScaleDetection                |-> TRUE,
    ZeroScaleIssueSeverity                   |-> Warning,
    bEnableAssetTypeSpecificPivotRules       |-> FALSE,
    bEnableNonUniformScaleDetection          |-> TRUE,
    NonUniformScaleIssueSeverity             |-> Warning,
    bEnableStaticMeshLightmapResolutionRule  |-> TRUE,
    LightmapResolutionIssueSeverity          |-> Warning,
    bAllowLightmapResolutionAutoFix          |-> TRUE,
    bEnableStaticMeshSocketNamingRule        |-> TRUE,
    SocketNamingIssueSeverity                |-> Warning,
    bAllowSocketNamingAutoFix                |-> TRUE ]

\* The settings object with every rule switch of the quick settings off.
AllRulesOffSettings ==
  [ f \in DOMAIN DefaultSettings |->
      IF f \in { "bEnableStaticMeshNamingRule", "bEnableStaticMeshLODRule",
                 "bEnableStaticMeshLightmapUVRule",
                 "bEnableStaticMeshUVOverlappingRule",
                 "bEnableStaticMeshTriangleCountRule",
                 "bEnableStaticMeshDegenerateFacesRule",
                 "bEnableStaticMeshCollisionMissingRule",
                 "bEnableStaticMeshCollisionComplexityRule",
                 "bEnableStaticMeshNaniteSuitabilityRule",
                 "bEnableStaticMeshMaterialSlotRule",
                 "bEnableStaticMeshVertexColorMissingRule",
                 "bEnableVertexColorUnusedChannelRule",
                 "bEnableStaticMeshTransformPivotRule",
                 "bEnableZeroScaleDetection",
                 "bEnableNonUniformScaleDetection",
                 "bEnableStaticMeshLightmapResolutionRule",
                 "bEnableStaticMeshSocketNamingRule" }
      THEN FALSE ELSE DefaultSettings[f] ]

\* FString::SanitizeFloat on the whole-number thresholds that occur.
SanitizeFloat(n) ==
  CASE n = 2 -> "2.0" [] n = 5 -> "5.0" [] n = 8 -> "8.0" [] n = 10 -> "10.0"
    [] n = 15 -> "15.0" [] n = 20 -> "20.0" [] n = 30 -> "30.0"
    [] n = 50 -> "50.0" [] n = 90 -> "90.0" [] OTHER -> "0.0"

\* "Warning" unless the configured severity is Error or Info.
SeverityString(sev) ==
  IF sev = Error THEN "Error" ELSE IF sev = Info THEN "Info" ELSE "Warning"

\* SyncQuickSettingsToProfile: one SetRuleConfig per quick-settings rule, in
\* the order of the source.  Of the parameters written, those that a Check
\* reads from the profile are kept, with Severity and the auto-fix switch.
SyncQuickSettingsToProfile(p, S) ==
  SetRuleConfigs(p, <<
    RuleConfig("SM_Naming", S.bEnableStaticMeshNamingRule,
      Params(<< <<"NamingPattern", S.StaticMeshNamingPattern>> >>)),
    RuleConfig("SM_LODMissing", S.bEnableStaticMeshLODRule,
      Params(<< <<"MinLODs_SM", FromInt(S.MinRequiredLODs)>> >>)),
    RuleConfig("SM_LightmapUVMissing", S.bEnableStaticMeshLightmapUVRule,
      Params(<< <<"Severity", SeverityString(S.LightmapUVIssueSeverity)>>,
                <<"AllowAutoGeneration", BoolText(S.bAllowLightmapUVAutoFix)>> >>)),
    RuleConfig("SM_UVOverlapping", S.bEnableStaticMeshUVOverlappingRule,
      Params(<< <<"CheckUVChannel0", BoolText(S.bCheckUVChannel0)>>,
                <<"CheckUVChannel1", BoolText(S.bCheckUVChannel1)>>,
                <<"CheckUVChannel2", BoolText(S.bCheckUVChannel2)>>,
                <<"CheckUVChannel3", BoolText(S.bCheckUVChannel3)>>,
                <<"TextureWarningThreshold",
                  SanitizeFloat(S.TextureUVOverlapWarningThreshold)>>,
                <<"TextureErrorThreshold",
                  SanitizeFloat(S.TextureUVOverlapErrorThreshold)>>,
                <<"LightmapWarningThreshold",
                  SanitizeFloat(S.LightmapUVOverlapWarningThreshold)>>,
                <<"LightmapErrorThreshold",
                  SanitizeFloat(S.LightmapUVOverlapErrorThreshold)>> >>)),
    RuleConfig("SM_TriangleCount", S.bEnableStaticMeshTriangleCountRule,
      NoParams),
    RuleConfig("SM_DegenerateFaces", S.bEnableStaticMeshDegenerateFacesRule,
      Params(<< <<"AllowAutoFix", BoolText(S.bAllowDegenerateFacesAutoFix)>> >>)),
    RuleConfig("SM_CollisionMissing", S.bEnableStaticMeshCollisionMissingRule,
      Params(<< <<"AllowAutoFix", BoolText(S.bAllowCollisionMissingAutoFix)>> >>)),
    RuleConfig("SM_CollisionComplexity",
      S.bEnableStaticMeshCollisionComplexityRule,
      Params(<< <<"AllowAutoFix",
                  BoolText(S.bAllowCollisionComplexityAutoFix)>> >>)),
    RuleConfig("SM_NaniteSuitability", S.bEnableStaticMeshNaniteSuitabilityRule,
      Params(<< <<"AllowAutoFix", BoolText(S.bAllowNaniteSuitabilityAutoFix)>> >>)),
    RuleConfig("SM_MaterialSlot", S.bEnableStaticMeshMaterialSlotRule,
      Params(<< <<"AllowAutoFix", BoolText(S.bAllowMaterialSlotAutoFix)>> >>)),
    RuleConfig("SM_VertexColorMissing",
      S.bEnableStaticMeshVertexColorMissingRule,
      Params(<< <<"AllowAutoFix",
                  BoolText(S.bAllowVertexColorMissingAutoFix)>> >>)),
    RuleConfig("SM_TransformPivot", S.bEnableStaticMeshTransformPivotRule,
      NoParams),
    RuleConfig("SM_Scaling", S.bEnableNonUniformScaleDetection,
      Params(<< <<"ZeroScaleEnabled", BoolText(S.bEnableZeroScaleDetection)>> >>)),
    RuleConfig("SM_LightmapResolution",
      S.bEnableStaticMeshLightmapResolutionRule,
      Params(<< <<"AllowAutoFix",
                  BoolText(S.bAllowLightmapResolutionAutoFix)>> >>)),
    RuleConfig("SM_SocketNaming", S.bEnableStaticMeshSocketNamingRule,
      Params(<< <<"AllowAutoFix", BoolText(S.bAllowSocketNamingAutoFix)>> >>)) >>)

\* GetActiveProfile with no profile asset configured: the transient default
\* profile, created once and synchronised from the quick settings.
GetActiveProfile(S) == SyncQuickSettingsToProfile(NewProfile, S)

(***************************************************************************)
(* A UStaticMesh as the rules see it.  Facts holds the outcomes of the     *)
(* geometry predicates the checks branch on; the numeric fields are the    *)
(* counts they compare against thresholds.                                 *)
(***************************************************************************)
CleanMesh ==
  [ LODs                |-> << 1000, 500, 250 >>,  \* triangles per LODResource
    UVOverlaps          |-> << >>,                 \* FUVOverlapInfo per flagged channel
    DegenerateFaceCount |-> 0,
    TotalFaceCount      |-> 1000,
    CollisionPrimitives |-> 1,
    MaterialSlots       |-> 1,
    Facts               |-> { "NameMatchesPattern", "GenerateLightmapUVs",
                              "CanReduce" } ]

OverlapInfo(channel, count, pct) ==
  [ UVChannel |-> channel, OverlappingTriangleCount |-> count,
    OverlapPercentage |-> pct ]

(***************************************************************************)
(* FAssetAnalysisResult.  FixAction is the delegate: bound or not, and     *)
(* what it calls on the result's asset.                                    *)
(***************************************************************************)
NoFix == [ bound |-> FALSE, kind |-> "None" ]
Fix(kind) == [ bound |-> TRUE, kind |-> kind ]
FixIf(cond, kind) == IF cond THEN Fix(kind) ELSE NoFix

\* rule and idx are history fields: the position in StaticMeshRules of the
\* Check that added the result (0: none) and the position of the asset in
\* the enumeration of its scan (0: not in a scan).
Result(asset, severity, ruleID, fix) ==
  [ Asset |-> asset, Severity |-> severity, RuleID |-> ruleID,
    FixAction |-> fix, rule |-> 0, idx |-> 0 ]

Out(results, ret) == [ results |-> results, ret |-> ret ]
NoIssue == Out(<< >>, FALSE)

\* FStaticMeshNamingRule::Check
FStaticMeshNamingRule_Check(a, m, Profile, S) ==
  IF ~IsRuleEnabled(Profile, "SM_Naming") THEN NoIssue
  ELSE IF "NameMatchesPattern" \notin m.Facts
       THEN Out(<< Result(a, Warning, "SM_Naming", Fix("FixAssetNaming")) >>,
                TRUE)
       ELSE NoIssue

\* FStaticMeshLODMissingRule::Check
FStaticMeshLODMissingRule_Check(a, m, Profile, S) ==
  IF ~IsRuleEnabled(Profile, "SM_LODMissing") THEN NoIssue
  ELSE
    LET MinRequiredLODs ==
          Atoi(GetRuleParameter(Profile, "SM_LODMissing", "MinLODs_SM", "3"))
        CurrentLODCount == Len(m.LODs)
        Severity ==
          IF CurrentLODCount = 1 THEN Error
          ELSE IF CurrentLODCount < (MinRequiredLODs \div 2) THEN Error
          ELSE Warning
        CanGenerateLODs == CurrentLODCount # 0 /\ "CanReduce" \in m.Facts
    IN  IF CurrentLODCount < MinRequiredLODs
        THEN Out(<< Result(a, Severity, "SM_LODMissing",
                           FixIf(CanGenerateLODs, "GenerateLODs")) >>, TRUE)
        ELSE NoIssue

(***************************************************************************)
(* Single-precision arithmetic of CalculateReductionPercentage.  A positive *)
(* float is [m, x]: the value m * 2^(-x) with 2^23 <= m <= 2^24.  Triangle  *)
(* counts are below 2^24, so the conversions (float)int are exact; the      *)
(* quotient and the product each round to nearest, ties to even.           *)
(***************************************************************************)
RECURSIVE Pow2(_)
Pow2(n) == IF n = 0 THEN 1 ELSE 2 * Pow2(n - 1)

RoundNearestEven(q, rem, den) ==
  IF 2 * rem > den \/ (2 * rem = den /\ q % 2 = 1) THEN q + 1 ELSE q

\* (float)D / (float)H for D, H > 0: long division to 24 significant bits.
RECURSIVE FloatQuotient(_, _, _, _)
FloatQuotient(q, r, H, x) ==
  IF q >= 8388608                                   \* 2^23
  THEN [ m |-> RoundNearestEven(q, r, H), x |-> x ]
  ELSE FloatQuotient(2 * q + (IF 2 * r >= H THEN 1 ELSE 0),
                     IF 2 * r >= H THEN 2 * r - H ELSE 2 * r, H, x + 1)

\* f * 100.0f
FloatTimes100(f) ==
  LET P == f.m * 100
  IN  IF P < 1073741824                             \* 2^30
      THEN [ m |-> RoundNearestEven(P \div 64, P % 64, 64), x |-> f.x - 6 ]
      ELSE [ m |-> RoundNearestEven(P \div 128, P % 128, 128), x |-> f.x - 7 ]

\* The sign of f - T, for a positive float f and a whole number 0 < T < 128.
FloatCompare(f, T) ==
  IF f.x <= 0 THEN 1
  ELSE IF f.x > 24 THEN -1
  ELSE IF f.m < T * Pow2(f.x) THEN -1
  ELSE IF f.m = T * Pow2(f.x) THEN 0 ELSE 1

\* The magnitude of CalculateReductionPercentage(H, L), H # 0 and H # L.
ReductionMagnitude(H, L) ==
  LET D == IF H > L THEN H - L ELSE L - H
  IN  FloatTimes100(FloatQuotient(D \div H, D % H, H, 0))

\* CalculateReductionPercentage(H, L) < T, for a whole-number threshold T.
ReductionBelow(H, L, T) ==
  IF H = 0 \/ H = L THEN 0 < T
  ELSE IF H > L
       THEN T > 0 /\ FloatCompare(ReductionMagnitude(H, L), T) = -1
       ELSE T >= 0 \/ FloatCompare(ReductionMagnitude(H, L), 0 - T) = 1

\* GetSeverityForReduction
GetSeverityForReduction(H, L, MinReduction, WarningThreshold, ErrorThreshold) ==
  IF ReductionBelow(H, L, ErrorThreshold) THEN Error
  ELSE IF ReductionBelow(H, L, WarningThreshold) THEN Warning
  ELSE IF ReductionBelow(H, L, MinReduction) THEN Info
  ELSE Warning

\* The loop over LODIndex: WorstSeverity after the pairs up to LODIndex n.
RECURSIVE WorstSeverityUpTo(_, _, _, _, _)
WorstSeverityUpTo(lods, n, MinR, WarnT, ErrT) ==
  IF n < 2 THEN Info
  ELSE LET prev == WorstSeverityUpTo(lods, n - 1, MinR, WarnT, ErrT)
           H == lods[n - 1]
           L == lods[n]
       IN  IF H = 0 \/ L = 0 THEN prev
           ELSE IF ReductionBelow(H, L, MinR)
                THEN LET cur == GetSeverityForReduction(H, L, MinR, WarnT, ErrT)
                     IN  IF cur > prev THEN cur ELSE prev
                ELSE prev

\* The LOD indices (0-based, as the source counts them) added to ProblematicLODs.
ProblematicLODs(lods, MinR) ==
  { i - 1 : i \in { j \in 2..Len(lods) :
                      /\ lods[j - 1] # 0
                      /\ lods[j] # 0
                      /\ ReductionBelow(lods[j - 1], lods[j], MinR) } }

\* ProblematicLODs when only the first non-compliant LODIndex is kept.
RECURSIVE ProblematicLODsUpTo_FirstOnly(_, _, _)
ProblematicLODsUpTo_FirstOnly(lods, n, MinR) ==
  IF n < 2 THEN << >>
  ELSE LET prev == ProblematicLODsUpTo_FirstOnly(lods, n - 1, MinR)
       IN  IF lods[n - 1] = 0 \/ lods[n] = 0 \/ prev # << >> THEN prev
           ELSE IF ReductionBelow(lods[n - 1], lods[n], MinR)
                THEN << n - 1 >>
                ELSE prev

\* The TArray ProblematicLODs after the pairs up to LODIndex n: each
\* non-compliant LODIndex (0-based) is added with AddUnique, in loop order.
RECURSIVE ProblematicLODsUpTo(_, _, _)
ProblematicLODsUpTo(lods, n, MinR) ==
  IF n < 2 THEN << >>
  ELSE LET prev == ProblematicLODsUpTo(lods, n - 1, MinR)
       IN  IF lods[n - 1] = 0 \/ lods[n] = 0 THEN prev
           ELSE IF ReductionBelow(lods[n - 1], lods[n], MinR)
                THEN IF n - 1 \in Range(prev) THEN prev ELSE Append(prev, n - 1)
                ELSE prev

\* IssueDescription after the pairs up to LODIndex n: one "LODa->LODb"
\* entry, written here as the LODIndex b, is appended for each
\* non-compliant pair.
RECURSIVE IssueDescriptionUpTo(_, _, _)
IssueDescriptionUpTo(lods, n, MinR) ==
  IF n < 2 THEN << >>
  ELSE LET prev == IssueDescriptionUpTo(lods, n - 1, MinR)
       IN  IF lods[n - 1] = 0 \/ lods[n] = 0 THEN prev
           ELSE IF ReductionBelow(lods[n - 1], lods[n], MinR)
                THEN Append(prev, n - 1)
                ELSE prev

\* The lambda bound to Result.FixAction: it captures ProblematicLODs and
\* MinReductionPercentage by value and calls FixAllLODReductions once.
FixAllLODReductionsLambda(Captured, MinR) ==
  Fix("FixAllLODReductions")
    @@ [ ProblematicLODs |-> Captured, TargetReductionPercentage |-> MinR ]

\* FStaticMeshLODPolyReductionRule::Check
FStaticMeshLODPolyReductionRule_Check(a, m, Profile, S) ==
  IF ~IsRuleEnabled(Profile, "SM_LODPolyReduction") THEN NoIssue
  ELSE
    LET id   == "SM_LODPolyReduction"
        MinR == Atof(GetRuleParameter(Profile, id, "MinReductionPercentage", "30.0"))
        WarnT == Atof(GetRuleParameter(Profile, id, "WarningThreshold", "20.0"))
        ErrT == Atof(GetRuleParameter(Profile, id, "ErrorThreshold", "10.0"))
        \* BaseLOD.GetNumVertices() # 0: a built LODResource has vertices
        \* exactly when it has triangles.
        CanFixLODReduction ==
          m.LODs # << >> /\ m.LODs[1] # 0 /\ "CanReduce" \in m.Facts
    IN  IF Len(m.LODs) < 2 THEN NoIssue
        ELSE IF ProblematicLODs(m.LODs, MinR) # {}
             THEN Out(<< Result(a,
                           WorstSeverityUpTo(m.LODs, Len(m.LODs), MinR, WarnT, ErrT),
                           id,
                           IF CanFixLODReduction
                           THEN FixAllLODReductionsLambda(
                                  ProblematicLODsUpTo(m.LODs, Len(m.LODs), MinR),
                                  MinR)
                           ELSE NoFix)
                         @@ [ Description |->
                                IssueDescriptionUpTo(m.LODs, Len(m.LODs), MinR) ] >>,
                      TRUE)
             ELSE NoIssue

\* FStaticMeshLightmapUVMissingRule::Check
FStaticMeshLightmapUVMissingRule_Check(a, m, Profile, S) ==
  IF ~IsRuleEnabled(Profile, "SM_LightmapUVMissing") THEN NoIssue
  ELSE
    LET id == "SM_LightmapUVMissing"
        SeverityParam == GetRuleParameter(Profile, id, "Severity", "Warning")
        ConfiguredSeverity ==
          IF SeverityParam = "Error" THEN Error
          ELSE IF SeverityParam = "Info" THEN Info ELSE Warning
        bAllowAutoGeneration ==
          GetRuleParameter(Profile, id, "AllowAutoGeneration", "true") = "true"
    IN  IF "GenerateLightmapUVs" \in m.Facts THEN NoIssue
        ELSE IF "LightmapUVIssue" \in m.Facts
             THEN Out(<< Result(a, ConfiguredSeverity, id,
                           FixIf(bAllowAutoGeneration,
                                 "EnableGenerateLightmapUVs")) >>, TRUE)
             ELSE NoIssue

\* ShouldCheckUVChannel
ShouldCheckUVChannel(Profile, UVChannel) ==
  LET id == "SM_UVOverlapping"
  IN  CASE UVChannel = 0 ->
             GetRuleParameter(Profile, id, "CheckUVChannel0", "true") = "true"
        [] UVChannel = 1 ->
             GetRuleParameter(Profile, id, "CheckUVChannel1", "true") = "true"
        [] UVChannel = 2 ->
             GetRuleParameter(Profile, id, "CheckUVChannel2", "false") = "true"
        [] UVChannel = 3 ->
             GetRuleParameter(Profile, id, "CheckUVChannel3", "false") = "true"
        [] OTHER -> FALSE

\* GetSeverityForOverlapPercentage with a profile
GetSeverityForOverlapPercentage(Profile, OverlapPercentage, bIsLightmapChannel) ==
  LET id == "SM_UVOverlapping"
      WarningThreshold ==
        IF bIsLightmapChannel
        THEN Atof(GetRuleParameter(Profile, id, "LightmapWarningThreshold", "2.0"))
        ELSE Atof(GetRuleParameter(Profile, id, "TextureWarningThreshold", "5.0"))
      ErrorThreshold ==
        IF bIsLightmapChannel
        THEN Atof(GetRuleParameter(Profile, id, "LightmapErrorThreshold", "8.0"))
        ELSE Atof(GetRuleParameter(Profile, id, "TextureErrorThreshold", "15.0"))
  IN  IF OverlapPercentage > ErrorThreshold THEN Error
      ELSE IF OverlapPercentage > WarningThreshold THEN Warning
      ELSE Info

\* DetermineOverlapSeverity: bIsLightmapChannel is the constant false.
DetermineOverlapSeverity(info, Profile) ==
  GetSeverityForOverlapPercentage(Profile, info.OverlapPercentage, FALSE)

\* FStaticMeshUVOverlappingRule::Check: one result per checked channel whose
\* overlap info counts overlapping triangles; true also when disabled.
FStaticMeshUVOverlappingRule_Check(a, m, Profile, S) ==
  IF ~IsRuleEnabled(Profile, "SM_UVOverlapping") THEN Out(<< >>, TRUE)
  ELSE
    LET OverlapInfos ==
          SelectSeq(m.UVOverlaps,
                    LAMBDA o : ShouldCheckUVChannel(Profile, o.UVChannel))
        Flagged ==
          SelectSeq(OverlapInfos, LAMBDA o : o.OverlappingTriangleCount > 0)
    IN  Out([ i \in DOMAIN Flagged |->
                Result(a, DetermineOverlapSeverity(Flagged[i], Profile),
                       "SM_UVOverlapping", NoFix) ],
            TRUE)

\* FStaticMeshTriangleCountRule::DetermineSeverity
DetermineSeverity(TriangleCount, WarningThreshold, ErrorThreshold) ==
  IF TriangleCount >= ErrorThreshold THEN Error
  ELSE IF TriangleCount >= WarningThreshold THEN Warning
  ELSE Info

\* FStaticMeshTriangleCountRule::Check
FStaticMeshTriangleCountRule_Check(a, m, Profile, S) ==
  LET i == GetRuleConfigPtr(Profile, "SM_TriangleCount")
  IN  IF i = 0 \/ ~Profile.RuleConfigs[i].bEnabled THEN NoIssue
      ELSE IF ~S.bEnableStaticMeshTriangleCountRule THEN NoIssue
      ELSE
        LET CurrentTriangleCount ==
              IF m.LODs = << >> THEN 0 ELSE m.LODs[1]
            Base == S.TriangleCountBaseThreshold
            WarningThreshold ==
              Base + (Base * S.TriangleCountWarningPercentage) \div 100
            ErrorThreshold ==
              Base + (Base * S.TriangleCountErrorPercentage) \div 100
            Severity == DetermineSeverity(CurrentTriangleCount,
                                          WarningThreshold, ErrorThreshold)
        IN  IF CurrentTriangleCount = 0 THEN NoIssue
            ELSE IF Severity # Info
                 THEN Out(<< Result(a, Severity, "SM_TriangleCount", NoFix) >>,
                          TRUE)
                 ELSE NoIssue

\* FStaticMeshDegenerateFacesRule::Check
FStaticMeshDegenerateFacesRule_Check(a, m, Profile, S) ==
  IF ~S.bEnableStaticMeshDegenerateFacesRule THEN NoIssue
  ELSE
    LET Severity ==
          IF m.DegenerateFaceCount * 100 >=
               S.DegenerateFacesErrorThreshold * m.TotalFaceCount THEN Error
          ELSE IF m.DegenerateFaceCount * 100 >=
                    S.DegenerateFacesWarningThreshold * m.TotalFaceCount
               THEN Warning
          ELSE Info
    IN  IF m.DegenerateFaceCount > 0 /\ Severity # Info
        THEN Out(<< Result(a, Severity, "SM_DegenerateFaces",
                      FixIf(S.bAllowDegenerateFacesAutoFix
                              /\ "CanRemoveDegenerateFaces" \in m.Facts,
                            "RemoveDegenerateFaces")) >>, TRUE)
        ELSE NoIssue

\* FStaticMeshCollisionMissingRule::Check
FStaticMeshCollisionMissingRule_Check(a, m, Profile, S) ==
  IF ~S.bEnableStaticMeshCollisionMissingRule THEN NoIssue
  ELSE IF "MissingCollision" \in m.Facts
       THEN Out(<< Result(a, S.CollisionMissingIssueSeverity,
                     "SM_CollisionMissing",
                     FixIf(S.bAllowCollisionMissingAutoFix
                             /\ "CanGenerateCollision" \in m.Facts,
                           "GenerateCollision")) >>, TRUE)
       ELSE NoIssue

\* FStaticMeshCollisionComplexityRule::Check; HasComplexCollision leaves
\* UseComplexAsSimple false.
FStaticMeshCollisionComplexityRule_Check(a, m, Profile, S) ==
  IF ~S.bEnableStaticMeshCollisionComplexityRule THEN NoIssue
  ELSE
    LET PrimitiveCount == m.CollisionPrimitives
        UseComplexAsSimple == FALSE
        HasComplexCollision ==
          PrimitiveCount > 0 /\ (PrimitiveCount > 10 \/ UseComplexAsSimple)
        Severity ==
          IF UseComplexAsSimple /\ S.bTreatUseComplexAsSimpleAsError THEN Error
          ELSE IF PrimitiveCount >= S.CollisionComplexityErrorThreshold
               THEN Error
          ELSE IF PrimitiveCount >= S.CollisionComplexityWarningThreshold
               THEN Warning
          ELSE Info
    IN  IF HasComplexCollision /\ Severity # Info
        THEN Out(<< Result(a, Severity, "SM_CollisionComplexity",
                      FixIf(S.bAllowCollisionComplexityAutoFix
                              /\ "CanSimplifyCollision" \in m.Facts,
                            "SimplifyCollision")) >>, TRUE)
        ELSE NoIssue

\* FStaticMeshNaniteSuitabilityRule::Check
FStaticMeshNaniteSuitabilityRule_Check(a, m, Profile, S) ==
  IF ~S.bEnableStaticMeshNaniteSuitabilityRule THEN NoIssue
  ELSE
    LET ShouldUseNanite  == "ShouldUseNanite" \in m.Facts
        ShouldDisable    == "ShouldDisableNanite" \in m.Facts
        HasNaniteEnabled == "NaniteEnabled" \in m.Facts
        fix == FixIf(S.bAllowNaniteSuitabilityAutoFix
                       /\ "CanOptimizeNanite" \in m.Facts,
                     "OptimizeNaniteSettings")
    IN  IF ShouldUseNanite /\ ~HasNaniteEnabled
        THEN Out(<< Result(a, Warning, "SM_NaniteSuitability", fix) >>, TRUE)
        ELSE IF ShouldDisable /\ HasNaniteEnabled
             THEN Out(<< Result(a, Info, "SM_NaniteSuitability", fix) >>, TRUE)
             ELSE NoIssue

\* FStaticMeshMaterialSlotRule::Check
FStaticMeshMaterialSlotRule_Check(a, m, Profile, S) ==
  IF ~S.bEnableStaticMeshMaterialSlotRule THEN NoIssue
  ELSE
    LET SlotCount == m.MaterialSlots
        TooManySlots == SlotCount >= S.MaterialSlotWarningThreshold
        HasEmptySlots == "EmptyMaterialSlots" \in m.Facts
        afterSlots ==
          IF TooManySlots
          THEN IF SlotCount >= S.MaterialSlotErrorThreshold THEN Error
               ELSE Warning
          ELSE S.MaterialSlotIssueSeverity
        Severity ==
          IF HasEmptySlots /\ afterSlots = Info THEN Warning ELSE afterSlots
    IN  IF TooManySlots \/ HasEmptySlots
        THEN Out(<< Result(a, Severity, "SM_MaterialSlot",
                      FixIf(S.bAllowMaterialSlotAutoFix
                              /\ "CanOptimizeMaterialSlots" \in m.Facts
                              /\ HasEmptySlots,
                            "OptimizeMaterialSlots")) >>, TRUE)
        ELSE NoIssue

\* FStaticMeshVertexColorMissingRule::Check: up to three results.
FStaticMeshVertexColorMissingRule_Check(a, m, Profile, S) ==
  LET missing ==
        IF S.bEnableStaticMeshVertexColorMissingRule
             /\ "MissingVertexColors" \in m.Facts
        THEN << Result(a, S.VertexColorMissingIssueSeverity,
                  "SM_VertexColorMissing",
                  FixIf(S.bAllowVertexColorMissingAutoFix
                          /\ "CanGenerateVertexColors" \in m.Facts,
                        "GenerateVertexColors")) >>
        ELSE << >>
      unused ==
        IF S.bEnableVertexColorUnusedChannelRule
             /\ "UnusedVertexColorChannels" \in m.Facts
        THEN << Result(a, S.VertexColorUnusedChannelIssueSeverity,
                  "SM_VertexColorUnusedChannels", NoFix) >>
        ELSE << >>
      channels ==
        IF S.bEnableVertexColorChannelValidation
             /\ S.RequiredVertexColorChannels # ""
             /\ "MissingRequiredChannels" \in m.Facts
        THEN << Result(a, S.VertexColorMissingIssueSeverity,
                  "SM_VertexColorMissingChannels", NoFix) >>
        ELSE << >>
      all == missing \o unused \o channels
  IN  Out(all, all # << >>)

\* FStaticMeshTransformRule::Check
FStaticMeshTransformRule_Check(a, m, Profile, S) ==
  LET pivot ==
        IF S.bEnableStaticMeshTransformPivotRule
             /\ "ProblematicPivot" \in m.Facts
        THEN << Result(a, S.TransformPivotIssueSeverity, "SM_TransformPivot",
                       NoFix) >>
        ELSE << >>
      dcc ==
        IF S.bEnableAssetTypeSpecificPivotRules
             /\ "UnappliedDCCTransformations" \in m.Facts
        THEN << Result(a, S.TransformPivotIssueSeverity, "SM_DCCTransform",
                       NoFix) >>
        ELSE << >>
      all == pivot \o dcc
  IN  Out(all, all # << >>)

\* FStaticMeshScalingRule::Check
FStaticMeshScalingRule_Check(a, m, Profile, S) ==
  LET nonUniform ==
        IF S.bEnableNonUniformScaleDetection /\ "NonUniformScale" \in m.Facts
        THEN << Result(a, S.NonUniformScaleIssueSeverity, "SM_NonUniformScale",
                       NoFix) >>
        ELSE << >>
      zero ==
        IF S.bEnableZeroScaleDetection /\ "ZeroScale" \in m.Facts
        THEN << Result(a, S.ZeroScaleIssueSeverity, "SM_ZeroScale",
                       FixIf("CanFixScaling" \in m.Facts, "FixZeroScale")) >>
        ELSE << >>
      extreme ==
        IF S.bEnableAssetTypeSpecificPivotRules /\ "ExtremeScale" \in m.Facts
        THEN << Result(a, S.TransformPivotIssueSeverity, "SM_ExtremeScale",
                       NoFix) >>
        ELSE << >>
      all == nonUniform \o zero \o extreme
  IN  Out(all, all # << >>)

\* FStaticMeshLightmapResolutionRule::Check
FStaticMeshLightmapResolutionRule_Check(a, m, Profile, S) ==
  IF ~S.bEnableStaticMeshLightmapResolutionRule THEN NoIssue
  ELSE IF "InappropriateLightmapResolution" \in m.Facts
       THEN Out(<< Result(a, S.LightmapResolutionIssueSeverity,
                     "SM_LightmapResolution",
                     FixIf(S.bAllowLightmapResolutionAutoFix
                             /\ "CanSetLightmapResolution" \in m.Facts,
                           "SetOptimalLightmapResolution")) >>, TRUE)
       ELSE NoIssue

\* FStaticMeshSocketNamingRule::Check
FStaticMeshSocketNamingRule_Check(a, m, Profile, S) ==
  IF ~S.bEnableStaticMeshSocketNamingRule THEN NoIssue
  ELSE IF "InvalidSocketNaming" \in m.Facts
            \/ "InvalidSocketTransforms" \in m.Facts
       THEN Out(<< Result(a, S.SocketNamingIssueSeverity, "SM_SocketNaming",
                     FixIf(S.bAllowSocketNamingAutoFix
                             /\ "CanFixSocketIssues" \in m.Facts,
                           "FixSocketIssues")) >>, TRUE)
       ELSE NoIssue

(***************************************************************************)
(* FStaticMeshAnalyzer: the rules in the order InitializeRules adds them.  *)
(***************************************************************************)
StaticMeshRules ==
  << "FStaticMeshNamingRule", "FStaticMeshLODMissingRule",
     "FStaticMeshLODPolyReductionRule", "FStaticMeshLightmapUVMissingRule",
     "FStaticMeshUVOverlappingRule", "FStaticMeshTriangleCountRule",
     "FStaticMeshDegenerateFacesRule", "FStaticMeshCollisionMissingRule",
     "FStaticMeshCollisionComplexityRule", "FStaticMeshNaniteSuitabilityRule",
     "FStaticMeshMaterialSlotRule", "FStaticMeshVertexColorMissingRule",
     "FStaticMeshTransformRule", "FStaticMeshScalingRule",
     "FStaticMeshLightmapResolutionRule", "FStaticMeshSocketNamingRule" >>

\* IAssetCheckRule::GetRuleID of each rule class.
GetRuleID(rule) ==
  CASE rule = "FStaticMeshNamingRule"              -> "SM_Naming"
    [] rule = "FStaticMeshLODMissingRule"          -> "SM_LODMissing"
    [] rule = "FStaticMeshLODPolyReductionRule"    -> "SM_LODPolyReduction"
    [] rule = "FStaticMeshLightmapUVMissingRule"   -> "SM_LightmapUVMissing"
    [] rule = "FStaticMeshUVOverlappingRule"       -> "SM_UVOverlapping"
    [] rule = "FStaticMeshTriangleCountRule"       -> "SM_TriangleCount"
    [] rule = "FStaticMeshDegenerateFacesRule"     -> "SM_DegenerateFaces"
    [] rule = "FStaticMeshCollisionMissingRule"    -> "SM_CollisionMissing"
    [] rule = "FStaticMeshCollisionComplexityRule" -> "SM_CollisionComplexity"
    [] rule = "FStaticMeshNaniteSuitabilityRule"   -> "SM_NaniteSuitability"
    [] rule = "FStaticMeshMaterialSlotRule"        -> "SM_MaterialSlot"
    [] rule = "FStaticMeshVertexColorMissingRule"  -> "SM_VertexColorMissing"
    [] rule = "FStaticMeshTransformRule"           -> "SM_Transform"
    [] rule = "FStaticMeshScalingRule"             -> "SM_Scaling"
    [] rule = "FStaticMeshLightmapResolutionRule"  -> "SM_LightmapResolution"
    [] OTHER                                       -> "SM_SocketNaming"

\* Rule->Check(StaticMesh, Profile, OutResults): the virtual call.
Check(rule, a, m, Profile, S) ==
  CASE rule = "FStaticMeshNamingRule" ->
         FStaticMeshNamingRule_Check(a, m, Profile, S)
    [] rule = "FStaticMeshLODMissingRule" ->
         FStaticMeshLODMissingRule_Check(a, m, Profile, S)
    [] rule = "FStaticMeshLODPolyReductionRule" ->
         FStaticMeshLODPolyReductionRule_Check(a, m, Profile, S)
    [] rule = "FStaticMeshLightmapUVMissingRule" ->
         FStaticMeshLightmapUVMissingRule_Check(a, m, Profile, S)
    [] rule = "FStaticMeshUVOverlappingRule" ->
         FStaticMeshUVOverlappingRule_Check(a, m, Profile, S)
    [] rule = "FStaticMeshTriangleCountRule" ->
         FStaticMeshTriangleCountRule_Check(a, m, Profile, S)
    [] rule = "FStaticMeshDegenerateFacesRule" ->
         FStaticMeshDegenerateFacesRule_Check(a, m, Profile, S)
    [] rule = "FStaticMeshCollisionMissingRule" ->
         FStaticMeshCollisionMissingRule_Check(a, m, Profile, S)
    [] rule = "FStaticMeshCollisionComplexityRule" ->
         FStaticMeshCollisionComplexityRule_Check(a, m, Profile, S)
    [] rule = "FStaticMeshNaniteSuitabilityRule" ->
         FStaticMeshNaniteSuitabilityRule_Check(a, m, Profile, S)
    [] rule = "FStaticMeshMaterialSlotRule" ->
         FStaticMeshMaterialSlotRule_Check(a, m, Profile, S)
    [] rule = "FStaticMeshVertexColorMissingRule" ->
         FStaticMeshVertexColorMissingRule_Check(a, m, Profile, S)
    [] rule = "FStaticMeshTransformRule" ->
         FStaticMeshTransformRule_Check(a, m, Profile, S)
    [] rule = "FStaticMeshScalingRule" ->
         FStaticMeshScalingRule_Check(a, m, Profile, S)
    [] rule = "FStaticMeshLightmapResolutionRule" ->
         FStaticMeshLightmapResolutionRule_Check(a, m, Profile, S)
    [] OTHER ->
         FStaticMeshSocketNamingRule_Check(a, m, Profile, S)

(***************************************************************************)
(* The host: classes, the asset registry, the content-browser selections   *)
(* and the open level that the handlers query.                             *)
(***************************************************************************)
NoClass == "nullptr"
Classes == { "UObject", "UStaticMesh", "UDerivedStaticMesh", "UMaterial" }

\* UClass::GetSuperClass
GetSuperClass(c) ==
  CASE c = "UDerivedStaticMesh" -> "UStaticMesh"
    [] c = "UStaticMesh"        -> "UObject"
    [] c = "UMaterial"          -> "UObject"
    [] OTHER                    -> NoClass

\* UObject::IsA, which Cast<> tests.
RECURSIVE IsChildOf(_, _)
IsChildOf(c, base) ==
  IF c = NoClass THEN FALSE
  ELSE IF c = base THEN TRUE
  ELSE IsChildOf(GetSuperClass(c), base)

\* The asset registry, in the order its queries return assets.
Repository ==
  << "Rock", "Tree", "Gone", "Mat", "F1", "F2", "F3", "F4", "F5", "F6",
     "F7" >>
Assets == Range(Repository)

\* FAssetData::PackagePath
PackagePath(a) ==
  CASE a = "Rock" -> "/Game/A"
    [] a = "Tree" -> "/Game/A/B"
    [] a \in { "Gone", "Mat" } -> "/Game/C"
    [] OTHER -> "/Game/D"

\* The class of the object FAssetData::GetAsset returns.
GetClass(a) ==
  CASE a = "Tree" -> "UDerivedStaticMesh"
    [] a = "Mat"  -> "UMaterial"
    [] OTHER      -> "UStaticMesh"

\* Assets whose package cannot be loaded: GetAsset returns null.
Unloadable == { "Gone" }
GetAssetLoads(a) == a \notin Unloadable

\* The folders a recursive registry query for a path covers.
PathCovers(path, folder) ==
  \/ path \in { "/Game/", "/Game" }
  \/ path = folder
  \/ path = "/Game/A" /\ folder = "/Game/A/B"

\* FAssetScanner::ScanAssetsInPath(Path, true, Out): Out is emptied and
\* filled with the registry's answer.
ScanAssetsInPath(Path) ==
  SelectSeq(Repository, LAMBDA a : PathCovers(Path, PackagePath(a)))

\* What GetSelectedPathViewFolders may return.
FolderSelections ==
  { << >>, << "/Game/A", "/Game/A/B" >>, << "/Game/C" >> }

\* What GetSelectedAssets (FAssetScanner::ScanSelectedAssets) may return.
AssetSelections == { << >>, << "Rock", "Gone" >>, << "Tree", "Mat" >> }

\* The editor world: none, one without a current level, or the assets its
\* actors' components refer to, in actor order.
Level(world, level, refs) ==
  [ World |-> world, CurrentLevel |-> level, refs |-> refs ]
OpenLevels ==
  { Level(FALSE, FALSE, << >>), Level(TRUE, FALSE, << >>),
    Level(TRUE, TRUE, << >>), Level(TRUE, TRUE, << "Rock", "Mat", "Rock" >>) }

\* The meshes of the repository as the scans first find them.
InitialMeshes ==
  [ a \in { x \in Assets : IsChildOf(GetClass(x), "UStaticMesh") } |->
      CASE a = "Rock" ->
             [ CleanMesh EXCEPT
                 !.LODs = << 1000 >>,
                 !.Facts = { "GenerateLightmapUVs", "CanReduce",
                             "MissingCollision" } ]
        [] a = "Tree" ->
             [ CleanMesh EXCEPT !.LODs = << 1000, 900, 400 >> ]
        [] OTHER -> CleanMesh ]

(***************************************************************************)
(* FStaticMeshAnalyzer::AnalyzeAsset                                       *)
(***************************************************************************)
LoadFailureResult(a) == Result(a, Error, "SM_AssetLoading", NoFix)

\* The results of rule number i, marked with i.
CheckAt(i, a, m, Profile, S) ==
  Only({ [ k \in DOMAIN out |-> [ out[k] EXCEPT !.rule = i ] ] :
           out \in { Check(StaticMeshRules[i], a, m, Profile, S).results } })

\* An analyzer that runs its rules last-registered first.
AnalyzeAsset_ReverseRules(a, Profile, S, ms) ==
  IF ~(GetAssetLoads(a) /\ IsChildOf(GetClass(a), "UStaticMesh"))
  THEN << LoadFailureResult(a) >>
  ELSE Flatten([ i \in DOMAIN StaticMeshRules |->
                   CheckAt(Len(StaticMeshRules) + 1 - i, a, ms[a], Profile,
                           S) ])

AnalyzeAsset(a, Profile, S, ms) ==
  IF ~(GetAssetLoads(a) /\ IsChildOf(GetClass(a), "UStaticMesh"))
  THEN << LoadFailureResult(a) >>
  ELSE Flatten([ i \in DOMAIN StaticMeshRules |->
                   CheckAt(i, a, ms[a], Profile, S) ])

(***************************************************************************)
(* FAssetScanner                                                           *)
(***************************************************************************)
NoAnalyzer == "nullptr"
Analyzers  == { "StaticMeshAnalyzer", "SecondStaticMeshAnalyzer" }

\* AssetAnalyzersMap of a new FAssetScanner.
EmptyMap == [ c \in {} |-> NoAnalyzer ]

\* RegisterAssetAnalyzer: TMap::Add under a non-null class and a valid analyzer.
RegisterAssetAnalyzer(map, AssetClass, Analyzer) ==
  IF AssetClass # NoClass /\ Analyzer # NoAnalyzer
  THEN [ c \in DOMAIN map \cup { AssetClass } |->
           IF c = AssetClass THEN Analyzer ELSE map[c] ]
  ELSE map

\* A lookup that tries the asset's own class only.
FindAnalyzerClass_ExactOnly(map, CurrentClass) ==
  IF CurrentClass \in DOMAIN map /\ map[CurrentClass] # NoAnalyzer
  THEN CurrentClass
  ELSE NoClass

\* The while loop of AnalyzeSingleAsset: the class at which it stops, or
\* NoClass when the chain is exhausted.
RECURSIVE FindAnalyzerClass(_, _)
FindAnalyzerClass(map, CurrentClass) ==
  IF CurrentClass = NoClass THEN NoClass
  ELSE IF CurrentClass \in DOMAIN map /\ map[CurrentClass] # NoAnalyzer
       THEN CurrentClass
       ELSE FindAnalyzerClass(map, GetSuperClass(CurrentClass))

\* AnalyzeSingleAsset: what it appends to OutResults, and the analyzers it
\* invoked (history).
AnalyzeSingleAsset(a, S, map, ms) ==
  IF ~GetAssetLoads(a) THEN [ results |-> << >>, invoked |-> << >> ]
  ELSE LET found == FindAnalyzerClass(map, GetClass(a))
       IN  IF found # NoClass
           THEN [ results |-> Only({ AnalyzeAsset(a, Profile, S, ms) :
                                       Profile \in { GetActiveProfile(S) } }),
                  invoked |-> << map[found] >> ]
           ELSE [ results |-> << >>, invoked |-> << >> ]

\* AssetAnalyzersMap after SPipelineGuardianWindow::RegisterAssetAnalyzers.
ConstructedMap ==
  RegisterAssetAnalyzer(EmptyMap, "UStaticMesh",
                        "StaticMeshAnalyzer")

(***************************************************************************)
(* The rule catalog on its own: one Check of one rule, on a profile that   *)
(* holds a RuleConfig for the rule's ID, a settings object and a mesh.     *)
(***************************************************************************)
BrokenMesh ==
  [ LODs                |-> << 80000, 79000 >>,
    UVOverlaps          |-> << OverlapInfo(0, 12, 90), OverlapInfo(1, 0, 0),
                               OverlapInfo(2, 7, 85) >>,
    DegenerateFaceCount |-> 100,
    TotalFaceCount      |-> 1000,
    CollisionPrimitives |-> 30,
    MaterialSlots       |-> 7,
    Facts               |-> { "LightmapUVIssue", "MissingCollision",
                              "ShouldUseNanite", "EmptyMaterialSlots",
                              "MissingVertexColors",
                              "UnusedVertexColorChannels", "ProblematicPivot",
                              "NonUniformScale", "ZeroScale",
                              "InappropriateLightmapResolution",
                              "InvalidSocketNaming", "CanReduce",
                              "CanGenerateCollision", "CanFixScaling" } ]

CatalogMeshes == { CleanMesh, BrokenMesh }
CatalogSettings == { DefaultSettings, AllRulesOffSettings }

\* The active profile with the RuleConfig of id set to enabled: the stored
\* config when there is one, else a new one.
WithRuleEnabled(p, id, enabled) ==
  LET i == GetRuleConfigPtr(p, id)
  IN  SetRuleConfig(p, IF i # 0
                       THEN [ p.RuleConfigs[i] EXCEPT !.bEnabled = enabled ]
                       ELSE RuleConfig(id, enabled, NoParams))

RcIdle == [ done |-> TRUE, rule |-> "None", enabled |-> FALSE,
            S |-> DefaultSettings, mesh |-> CleanMesh,
            results |-> << >>, ret |-> FALSE ]

RcInputs ==
  { [ done |-> FALSE, rule |-> r, enabled |-> e, S |-> st, mesh |-> m,
      results |-> << >>, ret |-> FALSE ] :
      r \in Range(StaticMeshRules), e \in BOOLEAN, st \in CatalogSettings,
      m \in CatalogMeshes }

\* The profile handed to the Check of rc.
RcProfile ==
  WithRuleEnabled(GetActiveProfile(DefaultSettings), GetRuleID(rc.rule),
                  rc.enabled)

RunCheck ==
  /\ ~rc.done
  /\ LET out == Check(rc.rule, "Mesh", rc.mesh, RcProfile, rc.S)
     IN  rc' = [ rc EXCEPT !.done = TRUE, !.results = out.results,
                           !.ret = out.ret ]
  /\ UNCHANGED << scanVars, AssetAnalyzersMap, profVars, dz >>

(***************************************************************************)
(* FStaticMeshUVOverlappingRule on its own: one Check of a mesh with an    *)
(* FUVOverlapInfo for UV channels 0 and 1, under the profile synced from   *)
(* settings whose four overlap thresholds are set within the ranges the    *)
(* settings page allows.  A channel is flagged with more than 80% only.    *)
(***************************************************************************)
OverlapPercentages == { 85, 90, 100 }

SeverityInputs ==
  { [ done |-> FALSE, rule |-> "FStaticMeshUVOverlappingRule",
      enabled |-> TRUE,
      S |-> [ DefaultSettings EXCEPT
                !.TextureUVOverlapWarningThreshold = tw,
                !.TextureUVOverlapErrorThreshold = te,
                !.LightmapUVOverlapErrorThreshold = le ],
      mesh |-> [ CleanMesh EXCEPT
                   !.UVOverlaps = << OverlapInfo(0, 17, p0),
                                     OverlapInfo(1, 17, p1) >> ]
               @@ [ LightMapCoordinateIndex |-> lm ],
      results |-> << >>, ret |-> FALSE ] :
      tw \in { 5, 50 }, te \in { 15, 90 }, le \in { 8, 50 },
      p0 \in OverlapPercentages, p1 \in OverlapPercentages, lm \in { 0, 1 } }

\* One Check under the active profile of the settings rc.S.
RunUVCheck ==
  /\ ~rc.done
  /\ LET out == Check(rc.rule, "Mesh", rc.mesh, GetActiveProfile(rc.S), rc.S)
     IN  rc' = [ rc EXCEPT !.done = TRUE, !.results = out.results,
                           !.ret = out.ret ]
  /\ UNCHANGED << scanVars, AssetAnalyzersMap, profVars, dz >>

(***************************************************************************)
(* FStaticMeshLODPolyReductionRule on its own: one Check on a mesh whose    *)
(* LODResources hold the given triangle counts, under a profile whose       *)
(* RuleConfig carries the given MinReductionPercentage.                     *)
(***************************************************************************)
MaxLODs == 3

LodCounts == { 0, 47, 100, 6000, 7000, 7500, 8000, 8500, 9500, 10000 }

LodSeqs == UNION { [ 1..n -> LodCounts ] : n \in 1..MaxLODs }

LodParameters(min) ==
  Params(<< <<"MinReductionPercentage", min>>,
            <<"WarningThreshold", "20.0">>,
            <<"ErrorThreshold", "10.0">> >>)

LodInputs ==
  { [ done |-> FALSE, rule |-> "FStaticMeshLODPolyReductionRule",
      enabled |-> e, S |-> DefaultSettings,
      mesh |-> [ CleanMesh EXCEPT !.LODs = lods ],
      Parameters |-> LodParameters(min),
      results |-> << >>, ret |-> FALSE, fix |-> "None",
      NumSourceModels |-> Len(lods),
      calls |-> << >>, ReductionSettings |-> << >> ] :
      e \in BOOLEAN, lods \in LodSeqs, min \in { "30.0", "53.0", "95.0" } }

\* The profile handed to the Check of rc.
LodProfile ==
  SetRuleConfig(GetActiveProfile(DefaultSettings),
                RuleConfig("SM_LODPolyReduction", rc.enabled, rc.Parameters))

RunLODCheck ==
  /\ ~rc.done
  /\ LET out == Check(rc.rule, "Mesh", rc.mesh, LodProfile, rc.S)
     IN  rc' = [ rc EXCEPT !.done = TRUE, !.results = out.results,
                           !.ret = out.ret ]
  /\ UNCHANGED << scanVars, AssetAnalyzersMap, profVars, dz >>

\* The triangle counts StaticMesh->Build can leave in a LODResource.
RebuiltCounts == { 0, 47, 4900, 6500, 7000, 7500, 8000 }

\* FMath::Abs(ActualReduction - TargetReductionPercentage) > 5.0f, with
\* ActualReduction = ((float)(Prev - New) / (float)Prev) * 100.0f, for a
\* whole-number target 10 < T < 123.  The difference of the two floats is
\* then exact wherever it is near 5.  Prev = 0 divides by zero: the quotient
\* is an infinity when New > 0 and not a number when New = 0, and every
\* comparison with something that is not a number is false.
OutsideTolerance(Prev, New, T) ==
  IF Prev = 0 THEN New # 0
  ELSE IF Prev = New THEN T > 5
  ELSE IF Prev < New THEN TRUE
  ELSE \/ FloatCompare(ReductionMagnitude(Prev, New), T + 5) = 1
       \/ FloatCompare(ReductionMagnitude(Prev, New), T - 5) = -1

\* The verification loop of FixAllLODReductions: bAllFixesSuccessful for the
\* counts NewCounts read back after the build (NewCounts[1] is LOD0; the
\* loop measures LOD1 against BaseLODTriangles, read before the build).
bAllFixesSuccessful(BaseLODTriangles, NewCounts, T) ==
  \A i \in 2..Len(NewCounts) :
    ~OutsideTolerance(IF i = 2 THEN BaseLODTriangles ELSE NewCounts[i - 1],
                      NewCounts[i], T)

\* FStaticMeshLODPolyReductionRule::FixAllLODReductions(StaticMesh,
\* ProblematicLODs, TargetReductionPercentage): the text of the dialog it
\* ends with, "None" when it returns without one, for the counts the build
\* leaves.  The ReductionSettings it writes are read by the build only.
FixAllLODReductions(m, Problematic, T, NewCounts) ==
  IF Problematic = {} THEN "None"
  ELSE IF "CanReduce" \notin m.Facts THEN "LODReductionFixNoInterface"
  ELSE IF bAllFixesSuccessful(m.LODs[1], NewCounts, T)
       THEN "LODReductionFixAllSuccess"
       ELSE "LODReductionFixAllPartial"

(***************************************************************************)
(* The reduction targets of FixAllLODReductions, in single precision.  The *)
(* float zero is [m |-> 0, x |-> 0].  Triangle counts stay below 2^24 / 100 *)
(* here, so a count times a whole number up to 100 is exact.               *)
(***************************************************************************)
FloatZero == [ m |-> 0, x |-> 0 ]

\* (float)N / (float)D for whole numbers N >= 0 and D > 0 below 2^24.
FloatDiv(N, D) ==
  IF N = 0 THEN FloatZero ELSE FloatQuotient(N \div D, N % D, D, 0)

\* f * g: the 48-bit product of the mantissas, in halves of 12 bits, rounded
\* to nearest, ties to even.
FloatMul(f, g) ==
  IF f.m = 0 \/ g.m = 0 THEN FloatZero
  ELSE LET ah  == f.m \div 4096
           al  == f.m % 4096
           bh  == g.m \div 4096
           bl  == g.m % 4096
           mid == ah * bl + al * bh
           lo0 == (mid % 4096) * 4096 + al * bl
           HI  == ah * bh + mid \div 4096 + lo0 \div 16777216
           LO  == lo0 % 16777216
       IN  IF HI >= 8388608
           THEN [ m |-> RoundNearestEven(HI, LO, 16777216),
                  x |-> f.x + g.x - 24 ]
           ELSE [ m |-> RoundNearestEven(2 * HI + LO \div 8388608,
                                         LO % 8388608, 8388608),
                  x |-> f.x + g.x - 23 ]

\* FMath::Pow(A, B) for a whole exponent B >= 1, as the correctly rounded
\* product chain (exact for B = 1).
RECURSIVE FMathPow(_, _)
FMathPow(A, B) == IF B <= 1 THEN A ELSE FloatMul(FMathPow(A, B - 1), A)

\* FMath::RoundToInt(F) = FloorToInt(F + 0.5f) for 0 <= F < 2^23.  The sum
\* rounds only below 1/2, where the float next below 1/2 is carried to 1.
RoundToInt(f) ==
  IF f.m = 0 \/ f.x >= 26 THEN 0
  ELSE IF f.x = 25 THEN (IF f.m >= 16777215 THEN 1 ELSE 0)
  ELSE IF f.x >= 1 THEN (f.m + Pow2(f.x - 1)) \div Pow2(f.x)
  ELSE f.m * Pow2(0 - f.x)

\* f < g
FloatLess(f, g) ==
  IF g.m = 0 THEN FALSE
  ELSE IF f.m = 0 THEN TRUE
  ELSE LET a == IF f.m = 16777216 THEN [ m |-> 8388608, x |-> f.x - 1 ] ELSE f
           b == IF g.m = 16777216 THEN [ m |-> 8388608, x |-> g.x - 1 ] ELSE g
       IN  a.x > b.x \/ (a.x = b.x /\ a.m < b.m)

\* FMath::Clamp(X, Min, Max)
FMathClamp(X, Min, Max) ==
  IF FloatLess(X, Min) THEN Min ELSE IF FloatLess(X, Max) THEN X ELSE Max

\* The float literals 0.01f (0x3C23D70A) and 1.0f.
Float0_01 == [ m |-> 10737418, x |-> 30 ]
Float1_0  == [ m |-> 8388608, x |-> 23 ]

\* TargetTriangleCount without the minimum of 4 triangles.
TargetTriangleCount_NoMinimum(BaseLODTriangles, LODIndex, T) ==
  LET PreviousLODTriangles ==
        IF LODIndex = 1 THEN BaseLODTriangles
        ELSE RoundToInt(FloatMul(FloatDiv(BaseLODTriangles, 1),
                                 FMathPow(FloatDiv(100 - T, 100), LODIndex - 1)))
  IN  RoundToInt(FloatDiv(PreviousLODTriangles * (100 - T), 100))

\* TargetTriangleCount of the loop body for LODIndex >= 1, for a whole-number
\* target 0 <= T <= 100: PreviousLODTriangles is computed from
\* BaseLODTriangles alone.
TargetTriangleCount(BaseLODTriangles, LODIndex, T) ==
  LET PreviousLODTriangles ==
        IF LODIndex = 1 THEN BaseLODTriangles
        ELSE RoundToInt(FloatMul(FloatDiv(BaseLODTriangles, 1),
                                 FMathPow(FloatDiv(100 - T, 100), LODIndex - 1)))
      Rounded == RoundToInt(FloatDiv(PreviousLODTriangles * (100 - T), 100))
  IN  IF Rounded > 4 THEN Rounded ELSE 4

\* TargetTrianglePercentage after the clamp.
TargetTrianglePercentage(BaseLODTriangles, LODIndex, T) ==
  FMathClamp(FloatDiv(TargetTriangleCount(BaseLODTriangles, LODIndex, T),
                      BaseLODTriangles),
             Float0_01, Float1_0)

\* The calls FixAllLODReductions makes on the mesh once the reduction
\* interface is there, in order: Modify, one write of ReductionSettings per
\* LODIndex that has a source model, Build, MarkPackageDirty.
RECURSIVE SettingsCalls(_, _, _)
SettingsCalls(LODIndex, TotalLODs, NumSourceModels) ==
  IF LODIndex >= TotalLODs THEN << >>
  ELSE (IF LODIndex < NumSourceModels
        THEN << [ call |-> "ReductionSettings", LODIndex |-> LODIndex ] >>
        ELSE << >>)
       \o SettingsCalls(LODIndex + 1, TotalLODs, NumSourceModels)

FixAllLODReductions_Calls(m, Problematic, NumSourceModels) ==
  IF Problematic = {} \/ "CanReduce" \notin m.Facts THEN << >>
  ELSE << [ call |-> "Modify", LODIndex |-> 0 ] >>
       \o SettingsCalls(1, Len(m.LODs), NumSourceModels)
       \o << [ call |-> "Build", LODIndex |-> 0 ],
             [ call |-> "MarkPackageDirty", LODIndex |-> 0 ] >>

\* The ReductionSettings of the source models after FixAllLODReductions:
\* LODIndex -> [PercentTriangles, BaseLODModel] for the LODs written.
FixAllLODReductions_Settings(m, Problematic, T, NumSourceModels) ==
  IF Problematic = {} \/ "CanReduce" \notin m.Facts THEN << >>
  ELSE [ LODIndex \in { i \in 1..(Len(m.LODs) - 1) : i < NumSourceModels } |->
           [ PercentTriangles |->
               TargetTrianglePercentage(m.LODs[1], LODIndex, T),
             BaseLODModel |-> 0 ] ]

\* The FixAction of the result of the Check, executed once: the lambda
\* calls FixAllLODReductions with the values it captured.  Counts are the
\* triangle counts the build may leave; rc.NumSourceModels is how many
\* source models the mesh has (LOD0's included).
RunLODFixWith(Counts) ==
  /\ rc.done
  /\ rc.fix = "None"
  /\ rc.results # << >>
  /\ rc.results[1].FixAction.kind = "FixAllLODReductions"
  /\ LET Captured == Range(rc.results[1].FixAction.ProblematicLODs)
         T == rc.results[1].FixAction.TargetReductionPercentage
         TotalLODs == Len(rc.mesh.LODs)
     IN  \E NewCounts \in { c \in [ 1..TotalLODs -> Counts \cup { rc.mesh.LODs[1] } ] :
                              c[1] = rc.mesh.LODs[1] } :
           rc' = [ rc EXCEPT
                     !.fix = FixAllLODReductions(rc.mesh, Captured, T, NewCounts),
                     !.calls = FixAllLODReductions_Calls(rc.mesh, Captured,
                                                         rc.NumSourceModels),
                     !.ReductionSettings =
                        FixAllLODReductions_Settings(rc.mesh, Captured, T,
                                                     rc.NumSourceModels),
                     !.mesh.LODs =
                        IF "CanReduce" \in rc.mesh.Facts THEN NewCounts ELSE @ ]
  /\ UNCHANGED << scanVars, AssetAnalyzersMap, profVars, dz >>

RunLODFix == RunLODFixWith(RebuiltCounts)

(***************************************************************************)
(* The repair on its own, on meshes small and large: the Check, then the    *)
(* FixAction of its result.                                                 *)
(***************************************************************************)
RepairCounts == { 3, 4, 380, 10000 }

RepairRebuiltCounts == { 4, 7000 }

RepairInputs ==
  { [ done |-> FALSE, rule |-> "FStaticMeshLODPolyReductionRule",
      enabled |-> TRUE, S |-> DefaultSettings,
      mesh |-> [ CleanMesh EXCEPT !.LODs = lods ],
      Parameters |-> LodParameters(min),
      results |-> << >>, ret |-> FALSE, fix |-> "None",
      NumSourceModels |-> Len(lods) - missing,
      calls |-> << >>, ReductionSettings |-> << >> ] :
      lods \in UNION { [ 1..n -> RepairCounts ] : n \in 1..MaxLODs },
      min \in { "0.0", "30.0", "53.0", "100.0" },
      missing \in { 0, 1 } }

RunLODRepair == RunLODFixWith(RepairRebuiltCounts)

(***************************************************************************)
(* FTriangleUVBounds::Overlaps on its own.  UV coordinates are written in   *)
(* units of 2^-25: every coordinate used is a float, a difference of two    *)
(* is exact in the doubles of FVector2D, and the product of two differences *)
(* is exact in double and fits the integers here.  What rounds is each      *)
(* conversion to float: of a width, of a product, of GetArea's result.      *)
(***************************************************************************)
\* The float nearest to the whole number n >= 0 (ties to even), given that
\* n < 16777216 * g; g = 1 at the call.
RECURSIVE RoundToFloat(_, _)
RoundToFloat(n, g) ==
  IF n < 16777216 * g                               \* 2^24
  THEN RoundNearestEven(n \div g, n % g, g) * g
  ELSE RoundToFloat(n, 2 * g)

FMathMin(a, b) == IF a < b THEN a ELSE b
FMathMax(a, b) == IF a > b THEN a ELSE b

TriangleUVBounds(minX, minY, maxX, maxY) ==
  [ MinUV |-> [ X |-> minX, Y |-> minY ], MaxUV |-> [ X |-> maxX, Y |-> maxY ] ]

\* float GetArea() const
GetArea(b) ==
  RoundToFloat((b.MaxUV.X - b.MinUV.X) * (b.MaxUV.Y - b.MinUV.Y), 1)

\* FTriangleUVBounds::Overlaps(Other, Tolerance), for a Tolerance of
\* 1 / TolDen with TolDen a power of two: MinArea * Tolerance is then exact.
Overlaps(This, Other, TolDen) ==
  LET OverlapWidth ==
        RoundToFloat(FMathMax(0, FMathMin(This.MaxUV.X, Other.MaxUV.X)
                                   - FMathMax(This.MinUV.X, Other.MinUV.X)), 1)
      OverlapHeight ==
        RoundToFloat(FMathMax(0, FMathMin(This.MaxUV.Y, Other.MaxUV.Y)
                                   - FMathMax(This.MinUV.Y, Other.MinUV.Y)), 1)
      OverlapArea == RoundToFloat(OverlapWidth * OverlapHeight, 1)
      MinArea == FMathMin(GetArea(This), GetArea(Other))
  IN  OverlapArea * TolDen > MinArea

\* DetectOverlappingTriangles: the positions in TriangleBounds of the
\* triangles added to OutOverlappingTriangles.
DetectOverlappingTriangles(TriangleBounds, TolDen) ==
  { k \in DOMAIN TriangleBounds :
      \E i, j \in DOMAIN TriangleBounds :
        /\ i < j
        /\ k \in { i, j }
        /\ Overlaps(TriangleBounds[i], TriangleBounds[j], TolDen) }

UvXs == { 0, 1, 2, 16777220 }
UvYs == { 0, 3, 6, 9 }
UvTolDens == { 1, 2, 4 }

\* The boxes GetTriangleUVBounds can give that AnalyzeUVChannelOverlaps
\* keeps: those with GetArea() > 0.
UvBoxes ==
  { TriangleUVBounds(x0, y0, x1, y1) :
      x0 \in UvXs, y0 \in UvYs, x1 \in UvXs, y1 \in UvYs } \cap
  { b \in [ MinUV : [ X : UvXs, Y : UvYs ], MaxUV : [ X : UvXs, Y : UvYs ] ] :
      b.MinUV.X < b.MaxUV.X /\ b.MinUV.Y < b.MaxUV.Y }

UvInputs ==
  { [ done |-> FALSE, rule |-> "Overlaps", A |-> a, B |-> b, TolDen |-> t,
      ret |-> FALSE, reverse |-> FALSE, detected |-> {} ] :
      a \in UvBoxes, b \in UvBoxes, t \in UvTolDens }

RunOverlaps ==
  /\ ~rc.done
  /\ rc' = [ rc EXCEPT
               !.done = TRUE,
               !.ret = Overlaps(rc.A, rc.B, rc.TolDen),
               !.reverse = Overlaps(rc.B, rc.A, rc.TolDen),
               !.detected =
                  DetectOverlappingTriangles(<< rc.A, rc.B >>, rc.TolDen) ]
  /\ UNCHANGED << scanVars, AssetAnalyzersMap, profVars, dz >>

(***************************************************************************)
(* AnalyzeUVChannelOverlaps on its own, on the TriangleBounds that          *)
(* BuildTriangleUVBounds kept.  UV coordinates are whole multiples of 2^-6  *)
(* here, so every area and sum of areas is exact in float, and two box      *)
(* sizes that differ at all differ by at least 2^-12 in SizeSquared,        *)
(* above 0.0001f.                                                           *)
(***************************************************************************)
MaxTriangles == 6

\* The float literal 0.8f (0x3F4CCCCD).
Float0_8 == [ m |-> 13421773, x |-> 24 ]

\* (BoundSize - FirstBoundSize).SizeSquared() < 0.0001f
SimilarBounds(Bound, First) ==
  LET dX == (Bound.MaxUV.X - Bound.MinUV.X) - (First.MaxUV.X - First.MinUV.X)
      dY == (Bound.MaxUV.Y - Bound.MinUV.Y) - (First.MaxUV.Y - First.MinUV.Y)
  IN  (dX * dX + dY * dY) * 10000 < 4096

\* SimilarBoundsCount after the loop from i = 1.
SimilarBoundsCount(TriangleBounds) ==
  Cardinality({ i \in 2..Len(TriangleBounds) :
                  SimilarBounds(TriangleBounds[i], TriangleBounds[1]) })

\* AnalyzeUVChannelOverlaps(MeshDescription, UVChannel, OverlapTolerance,
\* OutOverlapInfo): the value returned and the fields of OutOverlapInfo it
\* leaves.  OverlappingTriangles is computed and not read again.
AnalyzeUVChannelOverlaps(TriangleBounds, TolDen) ==
  LET Num == Len(TriangleBounds)
      OverlappingTriangles == DetectOverlappingTriangles(TriangleBounds, TolDen)
      SimilarityRatio == FloatDiv(SimilarBoundsCount(TriangleBounds), Num)
      NoInfo == [ ret |-> FALSE, OverlappingTriangleCount |-> 0,
                  OverlapPercentage |-> FloatZero ]
  IN  IF Num = 0 THEN NoInfo
      ELSE IF Num > 4 /\ FloatLess(Float0_8, SimilarityRatio)
           THEN [ ret |-> TRUE,
                  OverlappingTriangleCount |->
                    RoundToInt(FloatMul(SimilarityRatio, FloatDiv(Num, 1))),
                  OverlapPercentage |-> FloatTimes100(SimilarityRatio) ]
           ELSE NoInfo

\* Boxes of triangles with UV area: two of one size that overlap, one of
\* another size apart from both.
ChannelBoxes ==
  { TriangleUVBounds(0, 0, 4, 4), TriangleUVBounds(2, 2, 6, 6),
    TriangleUVBounds(8, 8, 12, 16) }

\* Tolerances GetOverlapToleranceForChannel can return (inside its clamp to
\* [0.0001, 0.01]): 1/128 and 1/256.
ChannelTolDens == { 128, 256 }

ChannelInputs ==
  { [ done |-> FALSE, rule |-> "AnalyzeUVChannelOverlaps",
      TriangleBounds |-> tb, TolDen |-> t, ret |-> FALSE,
      OverlappingTriangleCount |-> 0, OverlapPercentage |-> FloatZero,
      results |-> 0 ] :
      tb \in UNION { [ 1..n -> ChannelBoxes ] : n \in 1..MaxTriangles },
      t \in ChannelTolDens }

\* One channel of AnalyzeStaticMeshUVOverlaps and the loop of Check over
\* OverlapInfos: the info is added when the analysis returns true, and a
\* result is added for an info whose OverlappingTriangleCount is positive.
RunAnalyzeUVChannel ==
  /\ ~rc.done
  /\ LET out == AnalyzeUVChannelOverlaps(rc.TriangleBounds, rc.TolDen)
     IN  rc' = [ rc EXCEPT
                   !.done = TRUE,
                   !.ret = out.ret,
                   !.OverlappingTriangleCount = out.OverlappingTriangleCount,
                   !.OverlapPercentage = out.OverlapPercentage,
                   !.results = IF out.ret /\ out.OverlappingTriangleCount > 0
                               THEN 1 ELSE 0 ]
  /\ UNCHANGED << scanVars, AssetAnalyzersMap, profVars, dz >>

(***************************************************************************)
(* EAssetScanMode and the texts shown in the status line.                  *)
(***************************************************************************)
Project         == "Project"
SelectedFolders == "SelectedFolders"
SelectedAssets  == "SelectedAssets"
OpenLevel       == "OpenLevel"
EAssetScanMode  == { Project, SelectedFolders, SelectedAssets, OpenLevel }

\* An FText: the LOCTEXT key, up to two numeric arguments (-1: none) and,
\* where the format embeds the task's message, that message's key and count.
Text(key, n1, n2, inner, innerN) ==
  [ key |-> key, n1 |-> n1, n2 |-> n2, inner |-> inner, innerN |-> innerN ]
Plain(key)      == Text(key, -1, -1, "", -1)
Counted(key, n) == Text(key, n, -1, "", -1)

NoTask ==
  [ started |-> FALSE, ScanMode |-> Project, ScanParameters |-> << >>,
    PreDiscoveredAssets |-> << >> ]
NoSignal ==
  [ queued |-> FALSE, CompletedScanMode |-> Project,
    CompletedScanParameters |-> << >>, DiscoveredAssetsFromTask |-> << >>,
    TaskCompletionMessage |-> Plain("") ]
NoContinuation ==
  [ pc |-> "none", CompletedScanMode |-> Project,
    AssetsToActuallyAnalyze |-> << >>, FinalResults |-> << >>,
    ProcessedCount |-> 0, TaskCompletionMessage |-> Plain(""),
    FinalOperationSummaryMessage |-> Plain("") ]

NoScan ==
  [ id |-> 0, mode |-> Project, params |-> << >>, captured |-> << >>,
    scans |-> << >>, enumerated |-> << >>, analyzed |-> << >>,
    collected |-> << >>, outcome |-> "none" ]

(***************************************************************************)
(* SPipelineGuardianReportView                                             *)
(***************************************************************************)
\* ApplyFilters: the positions of AllResults that pass the severity filter.
ApplyFilters(results, filter) ==
  SelectSeq([ i \in DOMAIN results |-> i ],
            LAMBDA i : filter = "All"
                         \/ SeverityToText(results[i].Severity) = filter)

\* SetResults: replaces AllResults, clears every selection, filters again.
SetResults(InResults) ==
  /\ AllResults' = InResults
  /\ SelectionState' = {}
  /\ DisplayedResults' = ApplyFilters(InResults, CurrentSeverityFilter)
  /\ UNCHANGED CurrentSeverityFilter

(***************************************************************************)
(* SPipelineGuardianWindow: the four request handlers.  Each states what   *)
(* the handler does to the window, the task, the report and the history.   *)
(***************************************************************************)
SetAnalysisInProgress(bInProgress, StatusMessage) ==
  /\ bIsAnalysisInProgress' = bInProgress
  /\ StatusText' = StatusMessage

\* new FAutoDeleteAsyncTask<FAssetScanTask>(...)->StartBackgroundTask()
StartBackgroundTask(mode, params, assets) ==
  /\ task' = [ started |-> TRUE, ScanMode |-> mode, ScanParameters |-> params,
               PreDiscoveredAssets |-> assets ]
  /\ hist' = [ NoScan EXCEPT !.id = hist.id + 1, !.mode = mode,
                             !.params = params, !.captured = assets ]

\* The report is cleared and the window goes back to idle.
ClearAndStop(StatusMessage) ==
  /\ SetResults(<< >>)
  /\ SetAnalysisInProgress(FALSE, StatusMessage)
  /\ UNCHANGED << task, hist >>

Ignored == UNCHANGED << winVars, task, reportVars, hist >>

\* A handler without the test of bIsAnalysisInProgress at its head.
OnAnalyzeProjectClicked_NoGuard ==
  /\ LastAnalysisMode' = Project
  /\ LastAnalysisParameters' = << >>
  /\ IF ~Settings.bMasterSwitch_EnableAnalysis
     THEN ClearAndStop(Plain("AnalysisDisabledMasterProjectPreAsync"))
     ELSE /\ SetAnalysisInProgress(TRUE,
               Plain("StartingProjectAnalysisAsyncPhase"))
          /\ StartBackgroundTask(Project, << >>, << >>)
          /\ UNCHANGED reportVars

OnAnalyzeProjectClicked ==
  IF bIsAnalysisInProgress THEN Ignored
  ELSE
    /\ LastAnalysisMode' = Project
    /\ LastAnalysisParameters' = << >>
    /\ IF ~Settings.bMasterSwitch_EnableAnalysis
       THEN ClearAndStop(Plain("AnalysisDisabledMasterProjectPreAsync"))
       ELSE /\ SetAnalysisInProgress(TRUE,
                 Plain("StartingProjectAnalysisAsyncPhase"))
            /\ StartBackgroundTask(Project, << >>, << >>)
            /\ UNCHANGED reportVars

OnAnalyzeSelectedFolderClicked(SelectedPaths) ==
  IF bIsAnalysisInProgress THEN Ignored
  ELSE IF ~Settings.bMasterSwitch_EnableAnalysis
  THEN /\ ClearAndStop(Plain("AnalysisDisabledMasterFolderPreAsync"))
       /\ UNCHANGED << LastAnalysisMode, LastAnalysisParameters >>
  ELSE IF Len(SelectedPaths) = 0
  THEN /\ ClearAndStop(Plain("NoFolderSelectedForAnalysisPreAsync"))
       /\ UNCHANGED << LastAnalysisMode, LastAnalysisParameters >>
  ELSE /\ LastAnalysisMode' = SelectedFolders
       /\ LastAnalysisParameters' = SelectedPaths
       /\ SetAnalysisInProgress(TRUE, Plain("StartingFolderAnalysisAsyncPhase"))
       /\ StartBackgroundTask(SelectedFolders, SelectedPaths, << >>)
       /\ UNCHANGED reportVars

OnAnalyzeOpenLevelAssetsClicked(level) ==
  IF bIsAnalysisInProgress THEN Ignored
  ELSE
    /\ LastAnalysisMode' = OpenLevel
    /\ LastAnalysisParameters' = << >>
    /\ LET AssetsToAnalyze == AddUniqueAll(<< >>, level.refs)
       IN  IF ~Settings.bMasterSwitch_EnableAnalysis
           THEN ClearAndStop(Plain("AnalysisDisabledMasterOpenLevelPreAsync"))
           ELSE IF ~level.World
           THEN ClearAndStop(Plain("NoEditorWorldOpenLevelPreAsync"))
           ELSE IF ~level.CurrentLevel
           THEN ClearAndStop(Plain("NoCurrentLevelOpenLevelPreAsync"))
           ELSE IF Len(AssetsToAnalyze) = 0
           THEN ClearAndStop(Plain("NoAssetsInOpenLevelForAsyncPreAsync"))
           ELSE /\ SetAnalysisInProgress(TRUE,
                     Plain("StartingOpenLevelAnalysisAsyncPhase"))
                /\ StartBackgroundTask(OpenLevel, << >>, AssetsToAnalyze)
                /\ UNCHANGED reportVars

OnAnalyzeSelectedAssetsClicked(SelectedAssetsToAnalyze) ==
  IF bIsAnalysisInProgress THEN Ignored
  ELSE
    /\ LastAnalysisMode' = SelectedAssets
    /\ LastAnalysisParameters' = << >>
    /\ IF ~Settings.bMasterSwitch_EnableAnalysis
       THEN ClearAndStop(Plain("AnalysisDisabledMasterSelectedPreAsync"))
       ELSE IF Len(SelectedAssetsToAnalyze) = 0
       THEN ClearAndStop(Plain("NoAssetsSelectedForAnalysisAsyncPreAsync"))
       ELSE /\ SetAnalysisInProgress(TRUE,
                 Plain("StartingSelectedAssetsAsyncPhase"))
            /\ StartBackgroundTask(SelectedAssets, << >>,
                                   SelectedAssetsToAnalyze)
            /\ UNCHANGED reportVars

\* OnRefreshRequested: the handler of LastAnalysisMode, which asks the host
\* again for what is selected or open.
OnRefreshRequested ==
  CASE LastAnalysisMode = Project -> OnAnalyzeProjectClicked
    [] LastAnalysisMode = SelectedFolders ->
         \E paths \in FolderSelections : OnAnalyzeSelectedFolderClicked(paths)
    [] LastAnalysisMode = SelectedAssets ->
         \E sel \in AssetSelections : OnAnalyzeSelectedAssetsClicked(sel)
    [] OTHER ->
         \E level \in OpenLevels : OnAnalyzeOpenLevelAssetsClicked(level)

(***************************************************************************)
(* FAssetScanTask::DoWork, on a background thread.                         *)
(***************************************************************************)
\* A task that queries the registry itself for the modes that need it.
AssetsToPassToDelegate_Enumerates(t) ==
  CASE t.ScanMode = Project -> ScanAssetsInPath("/Game/")
    [] t.ScanMode = SelectedFolders ->
         Flatten([ i \in DOMAIN t.ScanParameters |->
                     ScanAssetsInPath(t.ScanParameters[i]) ])
    [] OTHER -> t.PreDiscoveredAssets

\* The list DoWork hands to the completion delegate.
AssetsToPassToDelegate(t) ==
  IF t.ScanMode \in { SelectedAssets, OpenLevel } THEN t.PreDiscoveredAssets
  ELSE << >>

\* The message DoWork hands to the completion delegate.
CompletionMessage(t) ==
  CASE t.ScanMode = Project -> Plain("ProjectScanPendingGT")
    [] t.ScanMode = SelectedFolders ->
         Counted("FolderScanPendingGTFmt", Len(t.ScanParameters))
    [] t.ScanMode = SelectedAssets ->
         Counted("SelectedAssetsReadyForAnalysisFmt",
                 Len(AssetsToPassToDelegate(t)))
    [] OTHER ->
         Counted("OpenLevelAssetsReadyForAnalysisFmt",
                 Len(AssetsToPassToDelegate(t)))

\* A task whose completion delegate is not bound: nothing is queued.
DoWork_DelegateNotBound ==
  /\ task.started
  /\ task' = NoTask
  /\ UNCHANGED << winVars, signal, gt, reportVars, Settings, meshes, hist,
                  fixLog, edits, AssetAnalyzersMap, profVars, rc, dz >>

\* DoWork makes no registry query; the delegate (OnAssetScanPhaseComplete)
\* queues the continuation for the game thread, and the task deletes itself.
DoWork ==
  /\ task.started
  /\ signal' = [ queued |-> TRUE,
                 CompletedScanMode |-> task.ScanMode,
                 CompletedScanParameters |-> task.ScanParameters,
                 DiscoveredAssetsFromTask |-> AssetsToPassToDelegate(task),
                 TaskCompletionMessage |-> CompletionMessage(task) ]
  /\ task' = NoTask
  /\ UNCHANGED << winVars, gt, reportVars, Settings, meshes, hist, fixLog,
                  edits, AssetAnalyzersMap, profVars, rc, dz >>

(***************************************************************************)
(* The continuation of OnAssetScanPhaseComplete, on the game thread.       *)
(***************************************************************************)
\* One registry query made by the continuation (history).
Query(thread, path) == [ thread |-> thread, path |-> path ]

\* The discovery at the head of the continuation: the list to analyze, the
\* status shown meanwhile and the summary message.
Discovery(s) ==
  CASE s.CompletedScanMode = Project ->
         LET found == ScanAssetsInPath("/Game/")
         IN  [ assets  |-> found,
               scans   |-> << Query("GameThread", "/Game/") >>,
               status  |-> Plain("GTPhase_ProjectScan"),
               summary |-> Counted("ProjectScanGTDiscoveryCompleteFmt",
                                   Len(found)) ]
    [] s.CompletedScanMode = SelectedFolders ->
         LET paths == s.CompletedScanParameters
             found == Flatten([ i \in DOMAIN paths |->
                                  ScanAssetsInPath(paths[i]) ])
         IN  [ assets  |-> found,
               scans   |-> [ i \in DOMAIN paths |->
                               Query("GameThread", paths[i]) ],
               status  |-> Counted("GTPhase_FolderScan", Len(paths)),
               summary |-> Text("FolderScanGTDiscoveryCompleteFmt",
                                Len(found), Len(paths), "", -1) ]
    [] OTHER ->
         [ assets  |-> s.DiscoveredAssetsFromTask,
           scans   |-> << >>,
           status  |-> Counted("GTPhase_PreDiscoveredLoad",
                               Len(s.DiscoveredAssetsFromTask)),
           summary |-> s.TaskCompletionMessage ]

\* The continuation starts: discovery, up to the head of the loop.
GTStart ==
  /\ signal.queued
  /\ gt.pc = "none"
  /\ LET d == Discovery(signal)
     IN  /\ gt' = [ pc |-> "loop",
                    CompletedScanMode |-> signal.CompletedScanMode,
                    AssetsToActuallyAnalyze |-> d.assets,
                    FinalResults |-> << >>,
                    ProcessedCount |-> 0,
                    TaskCompletionMessage |-> signal.TaskCompletionMessage,
                    FinalOperationSummaryMessage |-> d.summary ]
         /\ SetAnalysisInProgress(TRUE, d.status)
         /\ hist' = [ hist EXCEPT !.scans = d.scans, !.enumerated = d.assets ]
  /\ signal' = NoSignal
  /\ UNCHANGED << LastAnalysisMode, LastAnalysisParameters, task, reportVars,
                  Settings, meshes, fixLog, edits, AssetAnalyzersMap, profVars, rc,
                  dz >>

\* PumpMessages is called after every PumpPeriod-th asset.
PumpPeriod == 10

\* One iteration of the loop whose ShouldCancel() answered false:
\* AnalyzeSingleAsset appends to FinalResults, ProcessedCount++.
GTAnalyzeNext ==
  /\ gt.pc = "loop"
  /\ gt.ProcessedCount < Len(gt.AssetsToActuallyAnalyze)
  /\ \E out \in { AnalyzeSingleAsset(
                      gt.AssetsToActuallyAnalyze[gt.ProcessedCount + 1],
                      Settings, AssetAnalyzersMap, meshes).results } :
       LET i   == gt.ProcessedCount + 1
           a   == gt.AssetsToActuallyAnalyze[i]
           new == [ k \in DOMAIN out |-> [ out[k] EXCEPT !.idx = i ] ]
       IN  /\ gt' = [ gt EXCEPT
                        !.FinalResults = @ \o new,
                        !.ProcessedCount = i,
                        !.pc = IF i % PumpPeriod = 0 THEN "pump"
                               ELSE "loop" ]
           /\ hist' = [ hist EXCEPT !.analyzed = Append(@, a),
                                    !.collected = @ \o new ]
  /\ UNCHANGED << winVars, task, signal, reportVars, Settings, meshes,
                  fixLog, edits, AssetAnalyzersMap, profVars, rc, dz >>

\* PumpMessages returns.
GTPumpReturn ==
  /\ gt.pc = "pump"
  /\ gt' = [ gt EXCEPT !.pc = "loop" ]
  /\ UNCHANGED << winVars, task, signal, reportVars, Settings, meshes, hist,
                  fixLog, edits, AssetAnalyzersMap, profVars, rc, dz >>

\* The tail of the continuation: the report receives FinalResults and the
\* status line is formatted from the task's message, the number of assets
\* discovered and the number of results.  FinalOperationSummaryMessage is
\* not read.
CompleteScan(FinalOperationSummaryMessage, outcome) ==
  /\ SetResults(gt.FinalResults)
  /\ SetAnalysisInProgress(FALSE,
       Text("AnalysisFullyCompleteWithDetailsFmt",
            Len(gt.AssetsToActuallyAnalyze), Len(gt.FinalResults),
            gt.TaskCompletionMessage.key, gt.TaskCompletionMessage.n1))
  /\ gt' = NoContinuation
  /\ hist' = [ hist EXCEPT !.outcome = outcome ]
  /\ UNCHANGED << LastAnalysisMode, LastAnalysisParameters, task, signal,
                  Settings, meshes, fixLog, edits, AssetAnalyzersMap, profVars, rc,
                  dz >>

\* A cancel branch that throws the collected results away.
GTCancel_DiscardsResults ==
  /\ gt.pc = "loop"
  /\ gt.ProcessedCount < Len(gt.AssetsToActuallyAnalyze)
  /\ SetResults(<< >>)
  /\ SetAnalysisInProgress(FALSE,
       Text("AnalysisFullyCompleteWithDetailsFmt",
            Len(gt.AssetsToActuallyAnalyze), 0,
            gt.TaskCompletionMessage.key, gt.TaskCompletionMessage.n1))
  /\ gt' = NoContinuation
  /\ hist' = [ hist EXCEPT !.outcome = "Cancelled" ]
  /\ UNCHANGED << LastAnalysisMode, LastAnalysisParameters, task, signal,
                  Settings, meshes, fixLog, edits, AssetAnalyzersMap,
                  profVars, rc, dz >>

\* ShouldCancel() answers true at the head of an iteration: break.
GTCancel ==
  /\ gt.pc = "loop"
  /\ gt.ProcessedCount < Len(gt.AssetsToActuallyAnalyze)
  /\ CompleteScan(Text("AnalysisCancelledByUser", gt.ProcessedCount,
                       Len(gt.AssetsToActuallyAnalyze), "", -1),
                  "Cancelled")

\* The loop ran out of assets, or there were none.
GTFinish ==
  /\ gt.pc = "loop"
  /\ gt.ProcessedCount = Len(gt.AssetsToActuallyAnalyze)
  /\ CompleteScan(IF /\ Len(gt.AssetsToActuallyAnalyze) = 0
                     /\ gt.CompletedScanMode \in { Project, SelectedFolders }
                  THEN Text("NoAssetsFoundAfterGTDiscovery", -1, -1,
                            gt.FinalOperationSummaryMessage.key,
                            gt.FinalOperationSummaryMessage.n1)
                  ELSE gt.FinalOperationSummaryMessage,
                  "Complete")

(***************************************************************************)
(* The user's requests.  The game thread runs one handler at a time: a     *)
(* handler runs while no continuation is running, or nested in the         *)
(* PumpMessages call the evaluation loop makes after every tenth asset.    *)
(***************************************************************************)
GameThreadFree == gt.pc \in { "none", "pump" }

\* A request that can start a scan is taken while scans remain.
ScansRemain == bIsAnalysisInProgress \/ hist.id < MaxScans

requestRest == << signal, gt, Settings, meshes, fixLog, edits, AssetAnalyzersMap,
                  profVars, rc, dz >>

ClickAnalyzeProject ==
  /\ GameThreadFree /\ ScansRemain
  /\ OnAnalyzeProjectClicked
  /\ UNCHANGED requestRest

ClickAnalyzeSelectedFolder ==
  /\ GameThreadFree /\ ScansRemain
  /\ \E paths \in FolderSelections : OnAnalyzeSelectedFolderClicked(paths)
  /\ UNCHANGED requestRest

ClickAnalyzeSelectedAssets ==
  /\ GameThreadFree /\ ScansRemain
  /\ \E sel \in AssetSelections : OnAnalyzeSelectedAssetsClicked(sel)
  /\ UNCHANGED requestRest

ClickAnalyzeOpenLevelAssets ==
  /\ GameThreadFree /\ ScansRemain
  /\ \E level \in OpenLevels : OnAnalyzeOpenLevelAssetsClicked(level)
  /\ UNCHANGED requestRest

\* The master switch of the settings object is edited in the project
\* settings.
ToggleMasterSwitch ==
  /\ GameThreadFree
  /\ edits < MaxEdits
  /\ edits' = edits + 1
  /\ Settings' = [ Settings EXCEPT !.bMasterSwitch_EnableAnalysis = ~@ ]
  /\ UNCHANGED << winVars, task, signal, gt, reportVars, meshes, hist,
                  fixLog, AssetAnalyzersMap, profVars, rc, dz >>

(***************************************************************************)
(* SPipelineGuardianReportView: selection, filter and the fix batch.       *)
(***************************************************************************)
reportRest == << winVars, task, signal, gt, Settings, meshes, hist, fixLog,
                 AssetAnalyzersMap, profVars, rc, dz >>

\* The check box of one displayed row.
OnItemSelectionChanged(NewState, Item) ==
  /\ SelectionState' = IF NewState THEN SelectionState \cup { Item }
                       ELSE SelectionState \ { Item }
  /\ UNCHANGED << AllResults, DisplayedResults, CurrentSeverityFilter >>

ItemSelectionChanged ==
  /\ GameThreadFree
  /\ edits < MaxEdits
  /\ edits' = edits + 1
  /\ \E i \in DOMAIN DisplayedResults, NewState \in BOOLEAN :
       OnItemSelectionChanged(NewState, DisplayedResults[i])
  /\ UNCHANGED reportRest

\* The header check box: every displayed row takes the new state.
OnSelectAllChanged(NewState) ==
  /\ SelectionState' = IF NewState
                       THEN SelectionState \cup Range(DisplayedResults)
                       ELSE SelectionState \ Range(DisplayedResults)
  /\ UNCHANGED << AllResults, DisplayedResults, CurrentSeverityFilter >>

SelectAllChanged ==
  /\ GameThreadFree
  /\ edits < MaxEdits
  /\ edits' = edits + 1
  /\ \E NewState \in BOOLEAN : OnSelectAllChanged(NewState)
  /\ UNCHANGED reportRest

SeverityFilterOptions == << "All", "Critical", "Error", "Warning", "Info" >>

OnSeverityFilterChanged(NewSelection) ==
  /\ CurrentSeverityFilter' = NewSelection
  /\ DisplayedResults' = ApplyFilters(AllResults, NewSelection)
  /\ UNCHANGED << AllResults, SelectionState >>

SeverityFilterChanged ==
  /\ GameThreadFree
  /\ edits < MaxEdits
  /\ edits' = edits + 1
  /\ \E f \in Range(SeverityFilterOptions) : OnSeverityFilterChanged(f)
  /\ UNCHANGED reportRest

\* What a bound FixAction does to the mesh it captured, when the editor
\* operation it calls succeeds (ok) and when it fails.
ExecuteIfBound(ms, r, ok) ==
  IF ~ok \/ r.Asset \notin DOMAIN ms THEN ms
  ELSE CASE r.FixAction.kind = "FixAssetNaming" ->
              [ ms EXCEPT ![r.Asset].Facts = @ \cup { "NameMatchesPattern" } ]
         [] r.FixAction.kind = "GenerateLODs" ->
              [ ms EXCEPT ![r.Asset].LODs = CleanMesh.LODs ]
         [] r.FixAction.kind = "FixAllLODReductions" ->
              [ ms EXCEPT ![r.Asset].LODs = CleanMesh.LODs ]
         [] OTHER -> ms

\* One FixAction executed (history).
Executed(pos, ok) == [ pos |-> pos, ok |-> ok ]

\* A loop that ends at the first FixAction whose operation fails.
RECURSIVE ExecuteFixes_StopsAtFailure(_, _, _, _)
ExecuteFixes_StopsAtFailure(ItemsToFix, oks, ms, done) ==
  IF ItemsToFix = << >> THEN [ meshes |-> ms, executed |-> done ]
  ELSE LET pos == Head(ItemsToFix)
           r   == AllResults[pos]
           now == Append(done, Executed(pos, Head(oks)))
       IN  IF ~Head(oks) THEN [ meshes |-> ms, executed |-> now ]
           ELSE ExecuteFixes_StopsAtFailure(Tail(ItemsToFix), Tail(oks),
                                            ExecuteIfBound(ms, r, TRUE), now)

\* The loop of ExecuteFixesAndRefresh over ItemsToFix (positions in
\* AllResults); oks[k] is the outcome of the k-th item's editor operation.
RECURSIVE ExecuteFixes(_, _, _, _)
ExecuteFixes(ItemsToFix, oks, ms, done) ==
  IF ItemsToFix = << >> THEN [ meshes |-> ms, executed |-> done ]
  ELSE LET pos == Head(ItemsToFix)
           r   == AllResults[pos]
       IN  IF r.FixAction.bound
           THEN ExecuteFixes(Tail(ItemsToFix), Tail(oks),
                             ExecuteIfBound(ms, r, Head(oks)),
                             Append(done, Executed(pos, Head(oks))))
           ELSE ExecuteFixes(Tail(ItemsToFix), Tail(oks), ms, done)

\* The scan whose end put the results now in the report (history): the
\* running scan has not replaced the report yet.
ReportOrigin == IF hist.outcome = "none" THEN hist.id - 1 ELSE hist.id

\* ExecuteFixesAndRefresh: the confirmation dialog; on Yes every bound
\* FixAction of the batch in order, then the refresh request.
ExecuteFixesWithin(limit, how, ItemsToFix) ==
  \E UserResponse \in { "Yes", "No" } :
    IF UserResponse = "Yes"
    THEN /\ Len(fixLog) < limit
         /\ ScansRemain
         /\ \E oks \in [ 1 .. Len(ItemsToFix) -> BOOLEAN ] :
              LET run == ExecuteFixes(ItemsToFix, oks, meshes, << >>)
              IN  /\ meshes' = run.meshes
                  /\ fixLog' = Append(fixLog,
                                 [ how |-> how, ItemsToFix |-> ItemsToFix,
                                   executed |-> run.executed,
                                   scan |-> ReportOrigin,
                                   inProgress |-> bIsAnalysisInProgress,
                                   pc |-> gt.pc,
                                   processed |-> gt.ProcessedCount ])
         /\ OnRefreshRequested
    ELSE UNCHANGED << winVars, task, reportVars, hist, meshes, fixLog >>

ExecuteFixesAndRefresh(how, ItemsToFix) ==
  ExecuteFixesWithin(MaxFixBatches, how, ItemsToFix)

\* The message box "No Fixes Available".
NoFixesAvailable == UNCHANGED << winVars, task, reportVars, hist, meshes,
                                 fixLog >>

IsBound(pos) == AllResults[pos].FixAction.bound

OnFixSelectedClicked ==
  LET SelectedFixableResults ==
        SelectSeq(DisplayedResults,
                  LAMBDA pos : pos \in SelectionState /\ IsBound(pos))
  IN  IF Len(SelectedFixableResults) = 0 THEN NoFixesAvailable
      ELSE ExecuteFixesAndRefresh("FixSelected", SelectedFixableResults)

OnFixAllClicked ==
  LET FixableResults == SelectSeq(DisplayedResults, IsBound)
  IN  IF Len(FixableResults) = 0 THEN NoFixesAvailable
      ELSE ExecuteFixesAndRefresh("FixAll", FixableResults)

\* The Fix button of one row (OnGenerateRowForResultList).
OnFixRowClickedWithin(limit, Item) ==
  IF IsBound(Item) THEN ExecuteFixesWithin(limit, "FixRow", << Item >>)
  ELSE NoFixesAvailable

OnFixRowClicked(Item) == OnFixRowClickedWithin(MaxFixBatches, Item)

fixRest == << signal, gt, Settings, edits, AssetAnalyzersMap, profVars, rc, dz >>

FixSelectedClicked ==
  /\ GameThreadFree
  /\ OnFixSelectedClicked
  /\ UNCHANGED fixRest

FixAllClicked ==
  /\ GameThreadFree
  /\ OnFixAllClicked
  /\ UNCHANGED fixRest

FixRowClicked ==
  /\ GameThreadFree
  /\ \E i \in DOMAIN DisplayedResults : OnFixRowClicked(DisplayedResults[i])
  /\ UNCHANGED fixRest

\* The Fix button of a row, clicked on a report that had its batches:
\* MaxRepeats more are taken.
FixRowClickedAgain ==
  /\ GameThreadFree
  /\ Len(fixLog) >= MaxFixBatches
  /\ \E i \in DOMAIN DisplayedResults :
       OnFixRowClickedWithin(MaxFixBatches + MaxRepeats, DisplayedResults[i])
  /\ UNCHANGED fixRest

(***************************************************************************)
(* The profile store: ExportToJSON and ImportFromJSON.  A document is the  *)
(* FJsonObject tree the writer serializes and the reader builds again.     *)
(***************************************************************************)
JString(s) == [ type |-> "String", value |-> s ]
JNumber(n) == [ type |-> "Number", value |-> n ]
JBool(b)   == [ type |-> "Boolean", value |-> b ]
JObject(fields) == [ type |-> "Object", value |-> fields ]
JArray(elems)   == [ type |-> "Array", value |-> elems ]

HasField(obj, name) == name \in DOMAIN obj.value
HasTypedField(obj, name, type) ==
  HasField(obj, name) /\ obj.value[name].type = type

NoDocument == [ valid |-> FALSE, root |-> JObject(NoParams) ]

\* ExportToJSON
ExportRule(c) ==
  JObject([ RuleID     |-> JString(FNameToString(c.RuleID)),
            Enabled    |-> JBool(c.bEnabled),
            Parameters |-> JObject([ k \in DOMAIN c.Parameters |->
                                       JString(c.Parameters[k]) ]) ])

ExportToJSON(p) ==
  [ valid |-> TRUE,
    root  |-> JObject([ ProfileName |-> JString(p.ProfileName),
                        Description |-> JString(p.Description),
                        Version     |-> JNumber(p.Version),
                        Rules       |-> JArray([ i \in DOMAIN p.RuleConfigs |->
                                          ExportRule(p.RuleConfigs[i]) ]) ]) ]

\* The default-constructed FPipelineGuardianRuleConfig.
DefaultRuleConfig == RuleConfig(NAME_None, TRUE, NoParams)

\* An import that does not read the Enabled field.
ImportRule_IgnoresEnabled(obj) ==
  RuleConfig(IF HasTypedField(obj, "RuleID", "String")
             THEN FNameFromString(obj.value.RuleID.value)
             ELSE DefaultRuleConfig.RuleID,
             DefaultRuleConfig.bEnabled,
             IF HasTypedField(obj, "Parameters", "Object")
             THEN [ k \in DOMAIN obj.value.Parameters.value |->
                      obj.value.Parameters.value[k].value ]
             ELSE NoParams)

\* The body of the loop of ImportFromJSON over one element that is an object.
ImportRule(obj) ==
  LET id == IF HasTypedField(obj, "RuleID", "String")
            THEN FNameFromString(obj.value.RuleID.value)
            ELSE DefaultRuleConfig.RuleID
      en == IF HasTypedField(obj, "Enabled", "Boolean")
            THEN obj.value.Enabled.value
            ELSE DefaultRuleConfig.bEnabled
      ps == IF HasTypedField(obj, "Parameters", "Object")
            THEN LET po == obj.value.Parameters.value
                     ks == { k \in DOMAIN po : po[k].type = "String" }
                 IN  [ k \in ks |-> po[k].value ]
            ELSE NoParams
  IN  RuleConfig(id, en, ps)

\* An import that empties RuleConfigs before it parses the document.
ImportFromJSON_EmptiesFirst(p, doc) ==
  IF ~doc.valid
  THEN [ profile |-> [ p EXCEPT !.RuleConfigs = << >> ], ret |-> FALSE ]
  ELSE [ profile |-> p, ret |-> TRUE ]

\* ImportFromJSON: the profile afterwards and the value returned.
ImportFromJSON(p, doc) ==
  IF ~doc.valid THEN [ profile |-> p, ret |-> FALSE ]
  ELSE
    LET root  == doc.root
        name  == IF HasField(root, "ProfileName")
                 THEN root.value.ProfileName.value ELSE p.ProfileName
        desc  == IF HasField(root, "Description")
                 THEN root.value.Description.value ELSE p.Description
        ver   == IF HasField(root, "Version")
                 THEN root.value.Version.value ELSE p.Version
        elems == IF HasTypedField(root, "Rules", "Array")
                 THEN root.value.Rules.value ELSE << >>
        objs  == SelectSeq(elems, LAMBDA e : e.type = "Object")
    IN  [ profile |-> [ ProfileName |-> name, Description |-> desc,
                        Version |-> ver,
                        RuleConfigs |-> [ i \in DOMAIN objs |->
                                            ImportRule(objs[i]) ] ],
          ret |-> TRUE ]

\* The RuleConfigs a profile may hold: default rules, a disabled rule, a
\* rule named NAME_None, a repeated RuleID, an empty parameter value.
ConfigInputs ==
  { RuleConfig("SM_Naming", TRUE, Params(<< <<"NamingPattern", "SM_*">> >>)),
    RuleConfig("SM_Naming", FALSE, NoParams),
    RuleConfig(NAME_None, FALSE, Params(<< <<"Severity", "">> >>)),
    RuleConfig("SM_TriangleCount", TRUE,
               Params(<< <<"WarningThreshold", "50000">>,
                         <<"AllowAutoFix", "true">> >>)) }

RECURSIVE SeqsUpTo(_, _)
SeqsUpTo(S, n) ==
  IF n = 0 THEN { << >> }
  ELSE LET shorter == SeqsUpTo(S, n - 1)
       IN  shorter \cup { Append(s, x) : s \in shorter, x \in S }

ProfileInputs ==
  { NewProfile } \cup
  { [ ProfileName |-> n, Description |-> d, Version |-> v,
      RuleConfigs |-> cs ] :
      n \in { "", "Team" }, d \in { "Default Pipeline Guardian profile" },
      v \in { 1, 7 }, cs \in SeqsUpTo(ConfigInputs, MaxRuleConfigs) }

NoImport == "none"
ProfIdle ==
  /\ prof = NewProfile
  /\ json = ExportToJSON(NewProfile)
  /\ target = [ profile |-> NewProfile, ret |-> "true" ]

Export ==
  /\ ~json.valid
  /\ json' = ExportToJSON(prof)
  /\ UNCHANGED << scanVars, AssetAnalyzersMap, prof, target, rc, dz >>

Import ==
  /\ json.valid
  /\ target.ret = NoImport
  /\ LET out == ImportFromJSON(target.profile, json)
     IN  target' = [ profile |-> out.profile, ret |-> BoolText(out.ret) ]
  /\ UNCHANGED << scanVars, AssetAnalyzersMap, prof, json, rc, dz >>

(***************************************************************************)
(* The operations on one profile, from its construction: SetRuleConfig,    *)
(* SyncQuickSettingsToProfile and ImportFromJSON in any order.  rc records *)
(* the last call and counts the calls.                                     *)
(***************************************************************************)
MaxProfileOps == 3

\* Parseable documents: a Rules array of up to MaxRuleConfigs rule objects.
DocInputs ==
  { ExportToJSON([ ProfileName |-> "Team", Description |-> "", Version |-> 2,
                   RuleConfigs |-> cs ]) :
      cs \in SeqsUpTo(ConfigInputs, MaxRuleConfigs) }

OpIdle == [ done |-> FALSE, rule |-> "Construct", arg |-> << >>, calls |-> 0 ]

Called(op, arg) ==
  [ done |-> TRUE, rule |-> op, arg |-> arg, calls |-> rc.calls + 1 ]

OpSetRuleConfig ==
  /\ rc.calls < MaxProfileOps
  /\ \E cfg \in ConfigInputs :
       /\ prof' = SetRuleConfig(prof, cfg)
       /\ rc' = Called("SetRuleConfig", cfg)
  /\ UNCHANGED << scanVars, AssetAnalyzersMap, json, target, dz >>

OpSyncQuickSettings ==
  /\ rc.calls < MaxProfileOps
  /\ \E S \in CatalogSettings :
       /\ prof' = SyncQuickSettingsToProfile(prof, S)
       /\ rc' = Called("SyncQuickSettingsToProfile", << >>)
  /\ UNCHANGED << scanVars, AssetAnalyzersMap, json, target, dz >>

OpImportFromJSON ==
  /\ rc.calls < MaxProfileOps
  /\ \E doc \in DocInputs :
       /\ prof' = ImportFromJSON(prof, doc).profile
       /\ rc' = Called("ImportFromJSON", << >>)
  /\ UNCHANGED << scanVars, AssetAnalyzersMap, json, target, dz >>

(***************************************************************************)
(* Imports that may fail: ImportFromJSON on a profile that has content,    *)
(* and UPipelineGuardianSettings::ImportProfileFromFile.  rc holds the     *)
(* file, bSetAsActive, CachedActiveProfile and the pointer returned.       *)
(***************************************************************************)
\* A UPipelineGuardianProfile pointer: null, or the profile it points to.
NullProfile == [ valid |-> FALSE, obj |-> NewProfile ]
PointerTo(p) == [ valid |-> TRUE, obj |-> p ]

\* The documents a file or a caller may hold: text that does not parse, an
\* empty object, a document without metadata whose Rules array has an
\* element that is no object, and the exported documents.
ImportDocs ==
  DocInputs \cup
  { NoDocument,
    [ valid |-> TRUE, root |-> JObject(NoParams) ],
    [ valid |-> TRUE,
      root  |-> JObject([ Rules |-> JArray(<< JString("SM_Naming"),
                            ExportRule(RuleConfig("SM_Naming", FALSE,
                                                  NoParams)) >>) ]) ] }

\* ImportProfileFromFile: the pointer returned and CachedActiveProfile
\* afterwards.  File.loads is the answer of LoadFileToString.
ImportProfileFromFile(File, bSetAsActive, Cached) ==
  IF ~File.loads
  THEN [ ret |-> NullProfile, CachedActiveProfile |-> Cached ]
  ELSE LET out == ImportFromJSON(NewProfile, File.doc)
       IN  IF ~out.ret
           THEN [ ret |-> NullProfile, CachedActiveProfile |-> Cached ]
           ELSE [ ret |-> PointerTo(out.profile),
                  CachedActiveProfile |->
                    IF bSetAsActive THEN PointerTo(out.profile) ELSE Cached ]

\* The calls ImportProfileFromFile may get, before the call.
FileImportInputs ==
  { [ done |-> FALSE, rule |-> "ImportProfileFromFile",
      File |-> [ loads |-> l, doc |-> d ], bSetAsActive |-> b,
      CachedActiveProfile |-> c, ret |-> NullProfile ] :
      l \in BOOLEAN, d \in ImportDocs, b \in BOOLEAN,
      c \in { NullProfile, PointerTo(NewProfile) } }

\* ImportFromJSON is called on the profile target with the document json.
CallImportFromJSON ==
  /\ target.ret = NoImport
  /\ LET out == ImportFromJSON(target.profile, json)
     IN  target' = [ profile |-> out.profile, ret |-> BoolText(out.ret) ]
  /\ UNCHANGED << scanVars, AssetAnalyzersMap, prof, json, rc, dz >>

CallImportProfileFromFile ==
  /\ ~rc.done
  /\ LET out == ImportProfileFromFile(rc.File, rc.bSetAsActive,
                                      rc.CachedActiveProfile)
     IN  rc' = [ rc EXCEPT !.done = TRUE, !.ret = out.ret,
                           !.CachedActiveProfile = out.CachedActiveProfile ]
  /\ UNCHANGED << scanVars, AssetAnalyzersMap, profVars, dz >>

(***************************************************************************)
(* The window's lifetime.  The tab that owns SPipelineGuardianWindow can   *)
(* be closed at any time the game thread is free.  rc holds the state of   *)
(* the window object, the members the continuation reached through a       *)
(* dangling this, and how that ended.                                      *)
(***************************************************************************)
WindowIdle == [ done |-> FALSE, rule |-> "SPipelineGuardianWindow",
                window |-> "constructed", touched |-> {},
                outcome |-> "none" ]

WindowConstructed == rc.window = "constructed"

\* ~SPipelineGuardianWindow: the members (AssetScanner, ReportView,
\* StatusTextBlock) are released; a started task and a queued continuation
\* stay where they are.
DestroyWindow ==
  /\ WindowConstructed
  /\ gt.pc = "none"
  /\ rc' = [ rc EXCEPT !.window = "destroyed" ]
  /\ UNCHANGED << scanVars, AssetAnalyzersMap, profVars, dz >>

\* FAssetScanTask::DoWork after the window was destroyed: the weak scanner
\* pointer does not pin and the CreateSP delegate is not bound, so nothing
\* is queued and the task deletes itself.
DoWorkAfterDestroy ==
  /\ task.started
  /\ rc.window = "destroyed"
  /\ task' = NoTask
  /\ UNCHANGED << winVars, signal, gt, reportVars, Settings, meshes, hist,
                  fixLog, edits, AssetAnalyzersMap, profVars, rc, dz >>

\* The queued continuation runs after the window was destroyed.  The lambda
\* captured this by value, so every member is read through a dangling
\* pointer: the read may fault, or give any answer.  With an invalid answer
\* for AssetScanner or ReportView the guard's branch calls
\* SetAnalysisInProgress and ReportView->SetResults; with valid answers the
\* scan goes on with the released members.
GTStartAfterDestroy ==
  /\ signal.queued
  /\ gt.pc = "none"
  /\ rc.window = "destroyed"
  /\ signal' = NoSignal
  /\ \E faults \in BOOLEAN, AssetScannerIsValid \in BOOLEAN,
        ReportViewIsValid \in BOOLEAN :
       rc' = [ rc EXCEPT
                 !.done = TRUE,
                 !.touched =
                   IF faults THEN { "AssetScanner" }
                   ELSE IF ~AssetScannerIsValid
                   THEN { "AssetScanner", "bIsAnalysisInProgress",
                          "StatusTextBlock", "ReportView" }
                   ELSE { "AssetScanner", "ReportView",
                          "bIsAnalysisInProgress", "StatusTextBlock" },
                 !.outcome =
                   IF faults THEN "AccessViolation"
                   ELSE IF ~AssetScannerIsValid \/ ~ReportViewIsValid
                   THEN IF ReportViewIsValid
                        THEN "SetResultsOnReleasedReportView"
                        ELSE "NullReportViewDereferenced"
                   ELSE "ScanOnReleasedWindow" ]
  /\ UNCHANGED << winVars, task, gt, reportVars, Settings, meshes, hist,
                  fixLog, edits, AssetAnalyzersMap, profVars, dz >>

(***************************************************************************)
(* Asset-type dispatch on its own: registrations and single dispatches on  *)
(* a scanner that starts with no analyzer.                                 *)
(***************************************************************************)
DzIdle == [ done |-> FALSE, asset |-> "None", map |-> EmptyMap,
            results |-> << >>, invoked |-> << >>, regs |-> 0 ]

Register ==
  /\ dz.regs < MaxRegistrations
  /\ \E AssetClass \in Classes \cup { NoClass },
        Analyzer \in Analyzers \cup { NoAnalyzer } :
       AssetAnalyzersMap' =
         RegisterAssetAnalyzer(AssetAnalyzersMap, AssetClass, Analyzer)
  /\ dz' = [ dz EXCEPT !.regs = @ + 1 ]
  /\ UNCHANGED << scanVars, profVars, rc >>

Dispatch ==
  /\ \E a \in Assets :
       LET out == AnalyzeSingleAsset(a, Settings, AssetAnalyzersMap, meshes)
       IN  dz' = [ dz EXCEPT !.done = TRUE, !.asset = a,
                             !.map = AssetAnalyzersMap,
                             !.results = out.results,
                             !.invoked = out.invoked ]
  /\ UNCHANGED << scanVars, AssetAnalyzersMap, profVars, rc >>

(***************************************************************************)
(* Specifications.                                                         *)
(***************************************************************************)
\* The window after Construct, with nothing requested yet.
ScanInit ==
  /\ bIsAnalysisInProgress = FALSE
  /\ StatusText = Plain("ReadyStatusInitial")
  /\ LastAnalysisMode = Project
  /\ LastAnalysisParameters = << >>
  /\ task = NoTask
  /\ signal = NoSignal
  /\ gt = NoContinuation
  /\ AllResults = << >>
  /\ DisplayedResults = << >>
  /\ SelectionState = {}
  /\ CurrentSeverityFilter = SeverityFilterOptions[1]
  /\ Settings = DefaultSettings
  /\ meshes = InitialMeshes
  /\ hist = NoScan
  /\ fixLog = << >>
  /\ edits = 0

\* The scan orchestrator, the report and the fix batch.
Init ==
  /\ ScanInit
  /\ AssetAnalyzersMap = ConstructedMap
  /\ ProfIdle
  /\ rc = RcIdle
  /\ dz = DzIdle

Next ==
  \/ ClickAnalyzeProject
  \/ ClickAnalyzeSelectedFolder
  \/ ClickAnalyzeSelectedAssets
  \/ ClickAnalyzeOpenLevelAssets
  \/ ToggleMasterSwitch
  \/ DoWork
  \/ GTStart
  \/ GTAnalyzeNext
  \/ GTPumpReturn
  \/ GTCancel
  \/ GTFinish
  \/ ItemSelectionChanged
  \/ SelectAllChanged
  \/ SeverityFilterChanged
  \/ FixSelectedClicked
  \/ FixAllClicked
  \/ FixRowClicked

Spec == Init /\ [][Next]_vars

\* Fix batches, with the row buttons clicked again after a batch.
NextRefix ==
  \/ ClickAnalyzeProject
  \/ ClickAnalyzeSelectedFolder
  \/ ClickAnalyzeSelectedAssets
  \/ ClickAnalyzeOpenLevelAssets
  \/ DoWork
  \/ GTStart
  \/ GTAnalyzeNext
  \/ GTPumpReturn
  \/ GTCancel
  \/ GTFinish
  \/ FixAllClicked
  \/ FixRowClicked
  \/ FixRowClickedAgain

SpecRefix == Init /\ [][NextRefix]_vars

\* One Check of one rule of the catalog.
InitRules ==
  /\ ScanInit
  /\ AssetAnalyzersMap = ConstructedMap
  /\ ProfIdle
  /\ rc \in RcInputs
  /\ dz = DzIdle

NextRules == RunCheck

SpecRules == InitRules /\ [][NextRules]_vars

\* One Check of the LOD reduction rule.
InitLOD ==
  /\ ScanInit
  /\ AssetAnalyzersMap = ConstructedMap
  /\ ProfIdle
  /\ rc \in LodInputs
  /\ dz = DzIdle

NextLOD == RunLODCheck \/ RunLODFix

SpecLOD == InitLOD /\ [][NextLOD]_vars

\* The Check of the LOD rule and the repair its FixAction makes.
InitLODRepair ==
  /\ ScanInit
  /\ AssetAnalyzersMap = ConstructedMap
  /\ ProfIdle
  /\ rc \in RepairInputs
  /\ dz = DzIdle

NextLODRepair == RunLODCheck \/ RunLODRepair

SpecLODRepair == InitLODRepair /\ [][NextLODRepair]_vars

\* One Check of the UV overlapping rule.
InitUVSeverity ==
  /\ ScanInit
  /\ AssetAnalyzersMap = ConstructedMap
  /\ ProfIdle
  /\ rc \in SeverityInputs
  /\ dz = DzIdle

NextUVSeverity == RunUVCheck

SpecUVSeverity == InitUVSeverity /\ [][NextUVSeverity]_vars

\* One UV channel analyzed.
InitUVChannel ==
  /\ ScanInit
  /\ AssetAnalyzersMap = ConstructedMap
  /\ ProfIdle
  /\ rc \in ChannelInputs
  /\ dz = DzIdle

NextUVChannel == RunAnalyzeUVChannel

SpecUVChannel == InitUVChannel /\ [][NextUVChannel]_vars

\* One call of Overlaps on two triangle boxes.
InitUV ==
  /\ ScanInit
  /\ AssetAnalyzersMap = ConstructedMap
  /\ ProfIdle
  /\ rc \in UvInputs
  /\ dz = DzIdle

NextUV == RunOverlaps

SpecUV == InitUV /\ [][NextUV]_vars

\* A profile from its construction on.
InitStore ==
  /\ ScanInit
  /\ AssetAnalyzersMap = ConstructedMap
  /\ ProfIdle
  /\ rc = OpIdle
  /\ dz = DzIdle

NextStore == OpSetRuleConfig \/ OpSyncQuickSettings \/ OpImportFromJSON

SpecStore == InitStore /\ [][NextStore]_vars

\* Registrations and dispatches on a new FAssetScanner.
InitDispatch ==
  /\ ScanInit
  /\ AssetAnalyzersMap = EmptyMap
  /\ ProfIdle
  /\ rc = RcIdle
  /\ dz = DzIdle

NextDispatch == Register \/ Dispatch

SpecDispatch == InitDispatch /\ [][NextDispatch]_vars

\* One export of a profile and one import of the document into another.
InitProfile ==
  /\ ScanInit
  /\ AssetAnalyzersMap = ConstructedMap
  /\ prof \in ProfileInputs
  /\ json = NoDocument
  /\ target \in { [ profile |-> p, ret |-> NoImport ] :
                    p \in { NewProfile,
                            [ ProfileName |-> "Old", Description |-> "",
                              Version |-> 3,
                              RuleConfigs |->
                                << RuleConfig("SM_Old", TRUE, NoParams) >> ] } }
  /\ rc = RcIdle
  /\ dz = DzIdle

NextProfile == Export \/ Import

SpecProfile == InitProfile /\ [][NextProfile]_vars

\* One ImportFromJSON into a profile and one ImportProfileFromFile.
OldProfile ==
  [ ProfileName |-> "Old", Description |-> "", Version |-> 3,
    RuleConfigs |-> << RuleConfig("SM_Old", TRUE, NoParams) >> ]

InitImport ==
  /\ ScanInit
  /\ AssetAnalyzersMap = ConstructedMap
  /\ prof = NewProfile
  /\ json \in ImportDocs
  /\ target \in { [ profile |-> p, ret |-> NoImport ] :
                    p \in { NewProfile, OldProfile } }
  /\ rc \in FileImportInputs
  /\ dz = DzIdle

NextImport == CallImportFromJSON \/ CallImportProfileFromFile

SpecImport == InitImport /\ [][NextImport]_vars

\* Scans of a window that may be destroyed.  The completion delegate was
\* made with CreateSP, so it is bound while the window lives.
InitTeardown ==
  /\ ScanInit
  /\ AssetAnalyzersMap = ConstructedMap
  /\ ProfIdle
  /\ rc = WindowIdle
  /\ dz = DzIdle

NextTeardown ==
  \/ WindowConstructed /\ ClickAnalyzeProject
  \/ WindowConstructed /\ ClickAnalyzeSelectedFolder
  \/ WindowConstructed /\ ClickAnalyzeSelectedAssets
  \/ WindowConstructed /\ ClickAnalyzeOpenLevelAssets
  \/ WindowConstructed /\ DoWork
  \/ DoWorkAfterDestroy
  \/ DestroyWindow
  \/ WindowConstructed /\ GTStart
  \/ GTStartAfterDestroy
  \/ GTAnalyzeNext
  \/ GTPumpReturn
  \/ GTCancel
  \/ GTFinish

SpecTeardown == InitTeardown /\ [][NextTeardown]_vars

(***************************************************************************)
(* Properties of the evaluation loop.                                      *)
(***************************************************************************)
\* The step in which the loop of the running scan is left by cancellation.
CancelStep == hist.outcome = "none" /\ hist'.outcome = "Cancelled"

\* The step in which the loop evaluates one more asset.
EvaluationStep ==
  gt.pc = "loop" /\ gt'.pc # "none"
                 /\ gt'.ProcessedCount = gt.ProcessedCount + 1

\* What AnalyzeSingleAsset yields for the i-th enumerated asset in the state
\* in which the loop evaluates it.
ResultsOfAsset(i) ==
  LET out == AnalyzeSingleAsset(hist.enumerated[i], Settings,
                                AssetAnalyzersMap, meshes).results
  IN  [ k \in DOMAIN out |-> [ out[k] EXCEPT !.idx = i ] ]

\* C1: when the user cancels after K of the N enumerated assets, exactly the
\* first K assets have been passed to AnalyzeSingleAsset, the report receives
\* the results collected for them, and no later asset contributes a result.
C1_CancelKeepsFirstK ==
  [][ /\ EvaluationStep =>
           hist'.collected =
             hist.collected \o ResultsOfAsset(gt.ProcessedCount + 1)
      /\ CancelStep =>
           LET K == gt.ProcessedCount
           IN  /\ K < Len(hist.enumerated)
               /\ hist'.analyzed = SubSeq(hist.enumerated, 1, K)
               /\ AllResults' = hist.collected
               /\ \A i \in DOMAIN AllResults' : AllResults'[i].idx <= K
    ]_vars

\* C1 witness: a scan cancelled after some but not all assets, with results
\* of the analyzed assets in the report.
C1_Witness ==
  /\ hist.outcome = "Cancelled"
  /\ Len(hist.analyzed) > 0
  /\ Len(hist.analyzed) < Len(hist.enumerated)
  /\ AllResults # << >>
  /\ AllResults = hist.collected

\* C2 (as claimed): the status reported by the step that ends a cancelled
\* scan is the partial-completion message with K processed out of N.
C2_CancelStatusStatesKOfN ==
  [][ CancelStep =>
        /\ StatusText'.key = "AnalysisCancelledByUser"
        /\ StatusText'.n1 = gt.ProcessedCount
        /\ StatusText'.n2 = Len(gt.AssetsToActuallyAnalyze) ]_vars

(***************************************************************************)
(* Properties of dispatch.                                                 *)
(***************************************************************************)
\* The classes registered in map that are the class of asset a or one of
\* its ancestors.
RegisteredAncestors(map, a) ==
  { c \in Classes : /\ IsChildOf(GetClass(a), c)
                    /\ c \in DOMAIN map
                    /\ map[c] # NoAnalyzer }

\* C3: a dispatch of a loaded asset invokes exactly once the analyzer of the
\* nearest registered class on the asset's superclass chain and yields that
\* analyzer's results; with no registered class on the chain it invokes no
\* analyzer and yields nothing.
C3_NearestRegisteredAncestor ==
  (dz.done /\ GetAssetLoads(dz.asset)) =>
    LET reg == RegisteredAncestors(dz.map, dz.asset)
    IN  IF reg = {}
        THEN dz.results = << >> /\ dz.invoked = << >>
        ELSE LET nearest == CHOOSE c \in reg : \A d \in reg : IsChildOf(c, d)
             IN  /\ dz.invoked = << dz.map[nearest] >>
                 /\ dz.results = AnalyzeAsset(dz.asset,
                                              GetActiveProfile(Settings),
                                              Settings, meshes)

\* C3 witness: an asset of a derived class with no analyzer of its own is
\* dispatched to the analyzer of its parent class although a more distant
\* ancestor is registered too.
C3_Witness ==
  /\ dz.done
  /\ dz.asset = "Tree"
  /\ DOMAIN dz.map = { "UStaticMesh", "UObject" }
  /\ dz.map["UStaticMesh"] # dz.map["UObject"]
  /\ dz.invoked = << dz.map["UStaticMesh"] >>
  /\ dz.results # << >>

\* C4 (as claimed): the iteration of the loop over an asset whose object
\* cannot be loaded adds exactly one result, of severity Error, for it.
C4_LoadFailureYieldsOneError ==
  [][ (gt.pc = "loop" /\ gt'.pc # "none"
       /\ gt'.ProcessedCount = gt.ProcessedCount + 1
       /\ ~GetAssetLoads(gt.AssetsToActuallyAnalyze[gt'.ProcessedCount])) =>
        /\ Len(gt'.FinalResults) = Len(gt.FinalResults) + 1
        /\ LET r == gt'.FinalResults[Len(gt'.FinalResults)]
           IN  /\ r.Asset = gt.AssetsToActuallyAnalyze[gt'.ProcessedCount]
               /\ r.Severity = Error ]_vars

(***************************************************************************)
(* Properties of the profile store.                                        *)
(***************************************************************************)
\* C5: importing the document exported from a profile succeeds and yields
\* the same RuleConfigs (RuleID, Enabled flag, parameters) and the same
\* ProfileName, Description and Version.
C5_ExportImportRoundTrip ==
  target.ret # NoImport =>
    /\ target.ret = "true"
    /\ Range(target.profile.RuleConfigs) = Range(prof.RuleConfigs)
    /\ Len(target.profile.RuleConfigs) = Len(prof.RuleConfigs)
    /\ target.profile.ProfileName = prof.ProfileName
    /\ target.profile.Description = prof.Description
    /\ target.profile.Version = prof.Version

\* C5 witness: an import into a profile that held other rules, of a document
\* exported from a profile with a disabled rule, a rule named NAME_None and
\* an empty parameter value.
C5_Witness ==
  /\ target.ret = "true"
  /\ prof.ProfileName = "Team"
  /\ prof.Version = 7
  /\ Len(prof.RuleConfigs) = 2
  /\ \E i \in DOMAIN prof.RuleConfigs :
       /\ prof.RuleConfigs[i].RuleID = NAME_None
       /\ ~prof.RuleConfigs[i].bEnabled
  /\ target.profile = prof

(***************************************************************************)
(* Properties of the rule catalog.                                         *)
(***************************************************************************)
\* C6 (as claimed): a Check whose profile holds a RuleConfig for the rule's
\* ID with Enabled=false appends no result.
C6_DisabledRuleAppendsNothing ==
  (rc.done /\ ~rc.enabled) => rc.results = << >>

(***************************************************************************)
(* Properties of the scan orchestrator.                                    *)
(***************************************************************************)
\* The state of the scan state machine, read from the window, the task, the
\* queued continuation and the running continuation.
Phase ==
  IF gt.pc # "none" THEN "Evaluating"
  ELSE IF signal.queued
       THEN IF signal.CompletedScanMode \in { Project, SelectedFolders }
            THEN "DeferredDiscoveryPending"
            ELSE "PreResolved"
  ELSE IF task.started THEN "Dispatched"
  ELSE IF hist.outcome = "Complete" THEN "Complete"
  ELSE IF hist.outcome = "Cancelled" THEN "Cancelled"
  ELSE "Idle"

Resting == { "Idle", "Complete", "Cancelled" }

PhaseSteps ==
  (Resting \X { "Dispatched" })
    \cup { << "Dispatched", "DeferredDiscoveryPending" >>,
           << "Dispatched", "PreResolved" >>,
           << "DeferredDiscoveryPending", "Evaluating" >>,
           << "PreResolved", "Evaluating" >>,
           << "Evaluating", "Complete" >>,
           << "Evaluating", "Cancelled" >> }

\* The game thread runs the continuation it dequeued to its end, and the
\* thread pool runs the task it was given.
Fairness ==
  /\ WF_vars(DoWork)
  /\ WF_vars(GTStart)
  /\ WF_vars(GTCancel \/ GTFinish \/ GTPumpReturn \/ GTAnalyzeNext)

FairSpec == Init /\ [][Next]_vars /\ Fairness

\* C7: a scan is in progress exactly between its acceptance and its end; it
\* moves Idle -> Dispatched -> (DeferredDiscoveryPending for Project and
\* SelectedFolders | PreResolved for SelectedAssets and OpenLevel) ->
\* Evaluating -> Complete or Cancelled and never otherwise; the step that
\* ends it hands the results to the report and clears the flag; and every
\* accepted scan eventually ends.
C7_ScanStateMachine ==
  /\ [](bIsAnalysisInProgress <=> Phase \notin Resting)
  /\ [][ /\ Phase' # Phase => << Phase, Phase' >> \in PhaseSteps
         /\ (Phase = "Dispatched" /\ Phase' # Phase) =>
              (Phase' = "DeferredDiscoveryPending"
                 <=> hist.mode \in { Project, SelectedFolders })
         /\ (Phase = "Evaluating" /\ Phase' # Phase) =>
              (AllResults' = gt.FinalResults /\ ~bIsAnalysisInProgress') ]_vars
  /\ (Phase = "Dispatched") ~>
       (Phase \in { "Complete", "Cancelled" } /\ ~bIsAnalysisInProgress)

\* C7 witness: a second scan, of selected folders, that ran to its end and
\* replaced the report.
C7_Witness ==
  /\ Phase = "Complete"
  /\ hist.id = 2
  /\ hist.mode = SelectedFolders
  /\ ~bIsAnalysisInProgress
  /\ AllResults = hist.collected
  /\ AllResults # << >>

\* C8: the continuation queued by DoWork carries the mode and parameters of
\* the request and, for Project and SelectedFolders, an empty list, for
\* SelectedAssets and OpenLevel the list captured before dispatch; no
\* registry query is made before the continuation runs, and every query is
\* made on the game thread.
C8_BackgroundPhaseEnumeratesNothing ==
  /\ signal.queued =>
       /\ signal.CompletedScanMode = hist.mode
       /\ signal.CompletedScanParameters = hist.params
       /\ signal.CompletedScanMode \in { Project, SelectedFolders } =>
            signal.DiscoveredAssetsFromTask = << >>
       /\ signal.CompletedScanMode \in { SelectedAssets, OpenLevel } =>
            signal.DiscoveredAssetsFromTask = hist.captured
  /\ (task.started \/ signal.queued) => hist.scans = << >>
  /\ \A i \in DOMAIN hist.scans : hist.scans[i].thread = "GameThread"

\* C8 witness: the signal of an open-level scan carrying the captured list.
C8_Witness ==
  /\ signal.queued
  /\ signal.CompletedScanMode = OpenLevel
  /\ signal.DiscoveredAssetsFromTask = << "Rock", "Mat" >>
  /\ hist.captured = << "Rock", "Mat" >>

\* C9: the results of the report are in asset-enumeration order and, within
\* one asset evaluation, in rule-registration order; each stems from the
\* asset at its enumeration position and from the rule at its registration
\* position.
C9_ResultOrdering ==
  /\ \A i, j \in DOMAIN AllResults :
       i < j =>
         \/ AllResults[i].idx < AllResults[j].idx
         \/ /\ AllResults[i].idx = AllResults[j].idx
            /\ AllResults[i].rule <= AllResults[j].rule
  /\ hist.outcome # "none" =>
       \A i \in DOMAIN AllResults :
         LET r == AllResults[i]
         IN  /\ r.idx \in DOMAIN hist.enumerated
             /\ r.Asset = hist.enumerated[r.idx]
             /\ r.rule \in DOMAIN StaticMeshRules
             /\ r.RuleID = GetRuleID(StaticMeshRules[r.rule])

\* C9 witness: a report with two results of different rules for one asset,
\* followed by a result for a later asset.
C9_Witness ==
  /\ hist.outcome = "Complete"
  /\ \E i, j, k \in DOMAIN AllResults :
       /\ i < j /\ j < k
       /\ AllResults[i].idx = AllResults[j].idx
       /\ AllResults[i].rule < AllResults[j].rule
       /\ AllResults[j].idx < AllResults[k].idx

(***************************************************************************)
(* Properties of the fix batch.                                            *)
(***************************************************************************)
\* The step in which a confirmed batch is executed.
FixBatchStep == Len(fixLog') = Len(fixLog) + 1

\* C10: a confirmed batch invokes, once each and in report order, the
\* FixActions of exactly the displayed results with a bound FixAction ("fix
\* all"), of those that are selected too ("fix selected"), or of the one
\* row clicked, whatever the outcome of each invocation.
C10_FixBatchOrder ==
  [][ FixBatchStep =>
        LET b    == fixLog'[Len(fixLog')]
            exec == [ k \in DOMAIN b.executed |-> b.executed[k].pos ]
        IN  /\ b.how = "FixAll" =>
                 exec = SelectSeq(DisplayedResults,
                          LAMBDA p : AllResults[p].FixAction.bound)
            /\ b.how = "FixSelected" =>
                 exec = SelectSeq(DisplayedResults,
                          LAMBDA p : /\ AllResults[p].FixAction.bound
                                     /\ p \in SelectionState)
            /\ b.how = "FixRow" =>
                 /\ Len(exec) = 1
                 /\ exec[1] \in Range(DisplayedResults)
            /\ \A k \in DOMAIN exec : AllResults[exec[k]].FixAction.bound
            /\ \A k, l \in DOMAIN exec : k < l => exec[k] < exec[l] ]_vars

\* C10 witness: a "fix selected" batch of at least two FixActions whose
\* first invocation failed.
C10_Witness ==
  \E i \in DOMAIN fixLog :
    /\ fixLog[i].how = "FixSelected"
    /\ Len(fixLog[i].executed) >= 2
    /\ ~fixLog[i].executed[1].ok
    /\ fixLog[i].executed[2].ok

(***************************************************************************)
(* Properties of the refresh after a fix batch.                            *)
(***************************************************************************)
\* The step in which the running scan ends, by completion or cancellation.
ScanEndStep == hist.outcome = "none" /\ hist'.outcome # "none"

\* C11 (as claimed): the step that executes a confirmed fix batch starts a
\* new scan (a new background task, the window in progress), and the step
\* that ends a scan leaves in the report exactly the results collected by
\* that scan, with no selection kept.
C11_FixBatchStartsFullRescan ==
  /\ [][ FixBatchStep =>
           /\ hist'.id = hist.id + 1
           /\ task'.started
           /\ bIsAnalysisInProgress' ]_vars
  /\ [][ ScanEndStep =>
           /\ AllResults' = hist'.collected
           /\ SelectionState' = {} ]_vars

\* C12 (as claimed): among the batches executed on one report, no result's
\* FixAction is invoked twice.
C12_FixActionSingleShot ==
  \A i, j \in DOMAIN fixLog :
    (i < j /\ fixLog[i].scan = fixLog[j].scan) =>
      \A k \in DOMAIN fixLog[i].executed, l \in DOMAIN fixLog[j].executed :
        fixLog[i].executed[k].pos # fixLog[j].executed[l].pos

(***************************************************************************)
(* The LOD reduction rule, checked under SpecLOD.                          *)
(***************************************************************************)
LodChecked ==
  /\ rc.done
  /\ rc.enabled
  /\ rc.rule = "FStaticMeshLODPolyReductionRule"
  /\ "Parameters" \in DOMAIN rc
  /\ rc.fix = "None"

LodMin == Atof(rc.Parameters["MinReductionPercentage"])

\* The pair (i-1, i) of rc.mesh.LODs, in the indices of the sequence, fails
\* the minimum by the arithmetic of the rationals.
PairNonCompliant(i) ==
  LET H == rc.mesh.LODs[i - 1]
      L == rc.mesh.LODs[i]
  IN  /\ H # 0
      /\ L # 0
      /\ (H - L) * 100 < LodMin * H

\* C13: a pair of consecutive LODs with non-zero triangle counts is
\* non-compliant exactly when (count[i-1] - count[i]) * 100 / count[i-1] is
\* strictly below MinReductionPercentage, a reduction equal to the minimum
\* being compliant; Check returns true and emits a result exactly when some
\* pair is non-compliant.
C13_NonCompliantIffBelowMinimum ==
  LodChecked =>
    /\ rc.ret = (\E i \in 2..Len(rc.mesh.LODs) : PairNonCompliant(i))
    /\ (rc.results # << >>) = (\E i \in 2..Len(rc.mesh.LODs) : PairNonCompliant(i))

LodFixed ==
  /\ rc.done
  /\ "fix" \in DOMAIN rc
  /\ rc.fix # "None"

\* LOD i (an index of rc.mesh.LODs, 2 for LOD1) reached the target within
\* 5 points, by the arithmetic of the rationals: its reduction from the
\* LOD above is defined and lies in [T - 5, T + 5].
WithinTolerance(i) ==
  LET Prev == rc.mesh.LODs[i - 1]
      New  == rc.mesh.LODs[i]
  IN  /\ Prev # 0
      /\ (LodMin - 5) * Prev <= (Prev - New) * 100
      /\ (Prev - New) * 100 <= (LodMin + 5) * Prev

\* C14: after FixAllLODReductions has rebuilt the mesh with target T, either
\* every LOD index >= 1 has an achieved reduction within [T - 5, T + 5], or
\* the outcome reported is the partial one; full success is never reported
\* when some LOD lies outside the tolerance.
C14_SuccessOnlyWithinTolerance ==
  LodFixed =>
    /\ rc.fix \in { "LODReductionFixAllSuccess", "LODReductionFixAllPartial" }
    /\ rc.fix = "LODReductionFixAllSuccess" =>
          \A i \in 2..Len(rc.mesh.LODs) : WithinTolerance(i)

(***************************************************************************)
(* Overlaps, checked under SpecUV.                                         *)
(***************************************************************************)
\* The areas by the arithmetic of the reals (whole numbers of units^2).
BoxArea(b) == (b.MaxUV.X - b.MinUV.X) * (b.MaxUV.Y - b.MinUV.Y)

IntersectionArea(a, b) ==
  FMathMax(0, FMathMin(a.MaxUV.X, b.MaxUV.X) - FMathMax(a.MinUV.X, b.MinUV.X))
  * FMathMax(0, FMathMin(a.MaxUV.Y, b.MaxUV.Y) - FMathMax(a.MinUV.Y, b.MinUV.Y))

OverlapsCalled == rc.done /\ rc.rule = "Overlaps"

UniqueRuleIDs(p) ==
  \A i, j \in DOMAIN p.RuleConfigs :
    p.RuleConfigs[i].RuleID = p.RuleConfigs[j].RuleID => i = j

\* q is p after an upsert of cfg by RuleID: the first entry with that RuleID
\* replaced in place, or cfg appended when there is none; nothing else moved.
IsUpsert(p, q, cfg) ==
  LET ids == { i \in DOMAIN p.RuleConfigs : p.RuleConfigs[i].RuleID = cfg.RuleID }
  IN  IF ids = {}
      THEN q = [ p EXCEPT !.RuleConfigs = Append(@, cfg) ]
      ELSE /\ DOMAIN q.RuleConfigs = DOMAIN p.RuleConfigs
           /\ \E i \in ids :
                /\ \A j \in ids : i <= j
                /\ q.RuleConfigs[i] = cfg
                /\ \A k \in DOMAIN p.RuleConfigs \ { i } :
                     q.RuleConfigs[k] = p.RuleConfigs[k]
           /\ [ q EXCEPT !.RuleConfigs = << >> ] = [ p EXCEPT !.RuleConfigs = << >> ]

\* C16: after any sequence of profile operations from the construction with
\* the seeded default rules (SetRuleConfig, SyncQuickSettingsToProfile,
\* ImportFromJSON of a parseable document) RuleConfigs holds at most one
\* entry per RuleID, and SetRuleConfig is an upsert by RuleID.
C16_RuleConfigsUniqueByRuleID ==
  /\ [](rc.rule \in { "Construct", "SetRuleConfig", "SyncQuickSettingsToProfile",
                       "ImportFromJSON" } => UniqueRuleIDs(prof))
  /\ [][ rc'.rule = "SetRuleConfig" => IsUpsert(prof, prof', rc'.arg) ]_vars

(***************************************************************************)
(* The rules and the settings object, checked under SpecRules.             *)
(***************************************************************************)
\* What the claim calls the outcome of a Check: whether a result was
\* emitted and, for each, its severity and whether a FixAction is bound.
CheckOutcome(results) ==
  [ i \in DOMAIN results |->
      [ Severity |-> results[i].Severity,
        FixBound |-> results[i].FixAction.bound ] ]

\* C17: the outcome of a rule's Check is a function of the asset and of the
\* profile passed to it only: the same asset under the same profile gives
\* the same outcome whatever the values of the global settings object.
C17_OutcomeIndependentOfSettings ==
  (rc.done /\ rc.rule \in Range(StaticMeshRules)) =>
    \A S \in CatalogSettings :
      CheckOutcome(Check(rc.rule, "Mesh", rc.mesh, RcProfile, S).results)
        = CheckOutcome(rc.results)

\* C18: for every rule, Check returns true exactly when that invocation
\* appended at least one result; it returns false when the rule is disabled
\* in the profile and when no issue is found.
C18_ReturnsTrueIffResultAppended ==
  (rc.done /\ rc.rule \in Range(StaticMeshRules)) =>
    (rc.ret <=> rc.results # << >>)

(***************************************************************************)
(* The severity of the LOD reduction result, checked under SpecLOD.        *)
(***************************************************************************)
\* The band of the pair (i-1, i) by the thresholds of rc.Parameters, in the
\* arithmetic of the rationals.
PairBand(i) ==
  LET H == rc.mesh.LODs[i - 1]
      L == rc.mesh.LODs[i]
  IN  IF (H - L) * 100 < Atof(rc.Parameters["ErrorThreshold"]) * H THEN Error
      ELSE IF (H - L) * 100 < Atof(rc.Parameters["WarningThreshold"]) * H
           THEN Warning
           ELSE Info

NonCompliantPairs == { i \in 2..Len(rc.mesh.LODs) : PairNonCompliant(i) }

\* C20: a non-compliant pair's band is Error below ErrorThreshold, Warning
\* below WarningThreshold and Info otherwise, and the single result of the
\* LOD reduction Check carries the most severe band among its non-compliant
\* pairs.
C20_ResultCarriesWorstBand ==
  (LodChecked /\ NonCompliantPairs # {}) =>
    /\ Len(rc.results) = 1
    /\ \E i \in NonCompliantPairs :
         /\ rc.results[1].Severity = PairBand(i)
         /\ \A j \in NonCompliantPairs : PairBand(i) <= PairBand(j)

(***************************************************************************)
(* The refresh after fixes, checked under Spec.                            *)
(***************************************************************************)
\* A batch of fixes whose refresh started a scan.
RefreshScanStep == FixBatchStep /\ hist'.id = hist.id + 1

\* C19: the refresh requested by the report view after fixes re-analyzes
\* the same assets as the scan that produced the report: the re-scan runs in
\* the mode of that scan and over the same scope (the same folder paths, the
\* same captured asset set), whatever the user has selected since.
C19_RefreshRescansSameScope ==
  [][ RefreshScanStep =>
        /\ AllResults = hist.collected
        /\ hist'.mode = hist.mode
        /\ hist'.params = hist.params
        /\ hist'.captured = hist.captured ]_vars


(***************************************************************************)
(* The LOD repair, checked under SpecLODRepair.                            *)
(***************************************************************************)
\* The LOD indices (0-based, as the source counts them) whose pair with the
\* LOD above fails the minimum, by the arithmetic of the rationals.
NonCompliantLODs == { i - 1 : i \in { j \in 2..Len(rc.mesh.LODs) : PairNonCompliant(j) } }

\* s holds every element of S exactly once.
ListsExactlyOnce(s, S) == Range(s) = S /\ Len(s) = Cardinality(S)

\* C21: one Check of the LOD-reduction rule appends at most one result,
\* however many LOD pairs are non-compliant; the result lists every
\* non-compliant LOD index exactly once and, when a fix is available, its
\* one FixAction holds all of them and calls FixAllLODReductions for them
\* together.
C21_OneCoalescedResult ==
  LodChecked =>
    /\ Len(rc.results) <= 1
    /\ rc.results # << >> =>
          /\ ListsExactlyOnce(rc.results[1].Description, NonCompliantLODs)
          /\ rc.results[1].FixAction.bound =>
                /\ rc.results[1].FixAction.kind = "FixAllLODReductions"
                /\ ListsExactlyOnce(rc.results[1].FixAction.ProblematicLODs,
                                    NonCompliantLODs)

\* C21 witness: a Check that found two non-compliant pairs and emitted one
\* result with a bound FixAction.
C21_Witness ==
  /\ LodChecked
  /\ Cardinality(NonCompliantLODs) >= 2
  /\ Len(rc.results) = 1
  /\ rc.results[1].FixAction.bound

LodRepaired == rc.done /\ "calls" \in DOMAIN rc /\ rc.calls # << >>

\* PercentTriangles * LOD0 >= N, for a setting of at most 1.
ImpliedTargetAtLeast(pct, LOD0, N) ==
  pct.m # 0 /\
  (pct.m \div 4096) * LOD0 + ((pct.m % 4096) * LOD0) \div 4096
     >= N * Pow2(pct.x - 12)

\* The Build call is the only one and every ReductionSettings write is
\* before it.
BuiltOnceAfterSettings ==
  LET builds == { k \in DOMAIN rc.calls : rc.calls[k].call = "Build" }
      writes == { k \in DOMAIN rc.calls : rc.calls[k].call = "ReductionSettings" }
  IN  /\ Cardinality(builds) = 1
      /\ \A w \in writes, b \in builds : w < b
      /\ { rc.calls[k].LODIndex : k \in writes } = DOMAIN rc.ReductionSettings

ChannelAnalyzed == rc.done /\ rc.rule = "AnalyzeUVChannelOverlaps"

\* The positions of the triangles that occur in a pair of boxes whose
\* intersection is above the tolerance times the smaller area.
InOverlappingPair ==
  { k \in DOMAIN rc.TriangleBounds :
      \E i, j \in DOMAIN rc.TriangleBounds :
        /\ i # j
        /\ k \in { i, j }
        /\ IntersectionArea(rc.TriangleBounds[i], rc.TriangleBounds[j]) * rc.TolDen
             > FMathMin(BoxArea(rc.TriangleBounds[i]), BoxArea(rc.TriangleBounds[j])) }

\* The sum of the box areas of the triangles at the positions in Among.
RECURSIVE AreaOf(_)
AreaOf(Among) ==
  IF Among = {} THEN 0
  ELSE LET k == CHOOSE k \in Among : TRUE
       IN  BoxArea(rc.TriangleBounds[k]) + AreaOf(Among \ { k })

\* C23: a channel with at least one pair of triangle boxes overlapping
\* beyond the tolerance is reported, and the percentage reported is
\* (sum of the areas of the triangles in an overlapping pair) /
\* (sum of the areas of all triangles) * 100.
C23_AggregateOverlapReported ==
  ChannelAnalyzed =>
    /\ InOverlappingPair # {} => rc.results = 1
    /\ rc.results = 1 =>
          rc.OverlapPercentage =
            FloatTimes100(FloatDiv(AreaOf(InOverlappingPair),
                                   AreaOf(DOMAIN rc.TriangleBounds)))

\* The positions of the triangles whose box has the width and height of the
\* box of triangle t (sizes that differ here differ by more than "near").
SharingDimensions(t) ==
  { u \in DOMAIN rc.TriangleBounds :
      /\ rc.TriangleBounds[u].MaxUV.X - rc.TriangleBounds[u].MinUV.X
           = rc.TriangleBounds[t].MaxUV.X - rc.TriangleBounds[t].MinUV.X
      /\ rc.TriangleBounds[u].MaxUV.Y - rc.TriangleBounds[u].MinUV.Y
           = rc.TriangleBounds[t].MaxUV.Y - rc.TriangleBounds[t].MinUV.Y }

\* More than 80% of the triangles of the channel share box dimensions.
MoreThan80PercentShare ==
  \E t \in DOMAIN rc.TriangleBounds :
    Cardinality(SharingDimensions(t)) * 10 > 8 * Len(rc.TriangleBounds)

\* C24: a UV channel with at least one non-degenerate triangle is flagged
\* as a probable degenerate unwrap whenever more than 80% of its triangles
\* share near-identical bounding-box dimensions, also when no pair
\* overlaps, and is not flagged by the heuristic when 80% or fewer do.
C24_DegenerateUnwrapHeuristic ==
  ChannelAnalyzed => (rc.ret = MoreThan80PercentShare)

\* The second half alone: a flagged channel has more than 80% sharing.
C24_FlaggedOnlyAbove80Percent ==
  ChannelAnalyzed => (rc.ret => MoreThan80PercentShare)


(***************************************************************************)
(* The severity of a UV result, checked under SpecUVSeverity.              *)
(***************************************************************************)
\* The severity the thresholds of the profile give the overlap info o of
\* rc.mesh: the lightmap pair for the channel of the mesh's lightmap
\* coordinate index, the texture pair for every other channel.
ThresholdSeverity(o) ==
  LET Profile == GetActiveProfile(rc.S)
      kind == IF o.UVChannel = rc.mesh.LightMapCoordinateIndex
              THEN "Lightmap" ELSE "Texture"
      WarningThreshold ==
        Atof(GetRuleParameter(Profile, "SM_UVOverlapping",
                              kind \o "WarningThreshold", "none"))
      ErrorThreshold ==
        Atof(GetRuleParameter(Profile, "SM_UVOverlapping",
                              kind \o "ErrorThreshold", "none"))
  IN  IF o.OverlapPercentage > ErrorThreshold THEN Error
      ELSE IF o.OverlapPercentage > WarningThreshold THEN Warning
      ELSE Info

\* C25: the severity of a UV result is computed from the lightmap
\* thresholds of the profile for the channel used for baked lighting and
\* from the texture thresholds for every other channel: Error strictly
\* above the error threshold, Warning strictly above the warning threshold,
\* Info otherwise.
C25_SeverityFromChannelThresholds ==
  (rc.done /\ rc.rule = "FStaticMeshUVOverlappingRule"
           /\ "LightMapCoordinateIndex" \in DOMAIN rc.mesh) =>
    /\ Len(rc.results) = Len(rc.mesh.UVOverlaps)
    /\ \A i \in DOMAIN rc.results :
         rc.results[i].Severity = ThresholdSeverity(rc.mesh.UVOverlaps[i])


(***************************************************************************)
(* One scan in flight, checked under Spec.                                 *)
(***************************************************************************)
\* A scan request was accepted and its game-thread phase has not finished:
\* the task is started, or its continuation is queued, or it is running.
ScanInFlight == task.started \/ signal.queued \/ gt.pc # "none"

\* The step is an Analyze request: one of the four handlers, or the refresh
\* that follows a confirmed fix batch.
AnalyzeRequested ==
  \/ OnAnalyzeProjectClicked
  \/ \E paths \in FolderSelections : OnAnalyzeSelectedFolderClicked(paths)
  \/ \E sel \in AssetSelections : OnAnalyzeSelectedAssetsClicked(sel)
  \/ \E level \in OpenLevels : OnAnalyzeOpenLevelAssetsClicked(level)
  \/ fixLog' # fixLog

\* C26: at most one scan is in flight: from the acceptance of a scan request
\* until its game-thread phase has finished bIsAnalysisInProgress is true,
\* and every further Analyze request (a button, the refresh after a fix
\* batch, an event delivered by the message pump of the evaluation loop)
\* dispatches no second background task and leaves the report unchanged.
C26_OneScanInFlight ==
  [][ ScanInFlight =>
        /\ bIsAnalysisInProgress
        /\ ~(task.started /\ signal.queued)
        /\ ~(task.started /\ gt.pc # "none")
        /\ ~(signal.queued /\ gt.pc # "none")
        /\ hist'.id = hist.id
        /\ (task'.started => task.started)
        /\ (signal'.queued => (signal.queued \/ task.started))
        /\ (AnalyzeRequested => UNCHANGED << winVars, task, reportVars, hist >>)
    ]_vars

\* A fix batch was confirmed at the message pump of a running scan: its
\* refresh request met bIsAnalysisInProgress, and the scan is still the
\* only one.
C26_Witness ==
  /\ gt.pc = "pump"
  /\ bIsAnalysisInProgress
  /\ ~task.started /\ ~signal.queued
  /\ \E i \in DOMAIN fixLog : fixLog[i].pc = "pump" /\ fixLog[i].inProgress


(***************************************************************************)
(* Fix batches and the scan in flight, checked under Spec.                 *)
(***************************************************************************)
\* C27: no FixAction executes while a scan is dispatched or evaluating:
\* every confirmed fix batch ran while bIsAnalysisInProgress was false and
\* no continuation was inside its evaluation loop, so no fix mutates an
\* asset between two asset evaluations of one scan.
C27_NoFixWhileScanInFlight ==
  \A i \in DOMAIN fixLog :
    ~fixLog[i].inProgress /\ fixLog[i].pc = "none"

\* The second half alone: no batch with an executed FixAction ran at the
\* message pump with an asset of the scan still to evaluate.
C27_NoFixBetweenEvaluations ==
  \A i \in DOMAIN fixLog :
    ~(/\ fixLog[i].pc = "pump"
      /\ \E k \in DOMAIN fixLog[i].executed : fixLog[i].executed[k].ok
      /\ gt.pc # "none"
      /\ fixLog[i].processed < gt.ProcessedCount)


(***************************************************************************)
(* The list a scan evaluates, checked under Spec.                          *)
(***************************************************************************)
\* No asset is at two positions of the list s.
EachAtMostOnce(s) == \A i, j \in DOMAIN s : s[i] = s[j] => i = j

\* C28: within one scan each asset is analyzed at most once: the list the
\* game-thread phase evaluates holds no asset twice, in every scan mode,
\* also for SelectedFolders with a folder and one of its subfolders.
C28_EachAssetAnalyzedOnce ==
  /\ EachAtMostOnce(gt.AssetsToActuallyAnalyze)
  /\ EachAtMostOnce(hist.analyzed)


(***************************************************************************)
(* Imports that fail, checked under SpecImport.                            *)
(***************************************************************************)
\* C29: a failed import leaves state unchanged: when ImportFromJSON
\* returns false the profile's ProfileName, Description, Version and
\* RuleConfigs are as before the call, and whenever it changes one of them
\* it returns true; when ImportProfileFromFile fails (the file does not
\* load or its text does not parse) it returns null, and whenever it
\* returns null CachedActiveProfile is as before the call.
C29_FailedImportChangesNothing ==
  [][ /\ (target.ret = NoImport /\ target'.ret = "false") =>
           target'.profile = target.profile
      /\ (target.ret = NoImport /\ target'.profile # target.profile) =>
           target'.ret = "true"
      /\ (~rc.done /\ rc'.done) =>
           /\ (~rc.File.loads \/ ~rc.File.doc.valid) => rc'.ret = NullProfile
           /\ rc'.ret = NullProfile =>
                rc'.CachedActiveProfile = rc.CachedActiveProfile
    ]_vars

\* An ImportFromJSON of text that does not parse returned false on a
\* profile that has a rule, and an ImportProfileFromFile asked to set the
\* active profile returned null with a profile cached.
C29_Witness ==
  /\ target.ret = "false"
  /\ Len(target.profile.RuleConfigs) > 0
  /\ rc.done /\ rc.ret = NullProfile /\ rc.bSetAsActive
  /\ rc.File.loads
  /\ rc.CachedActiveProfile.valid


(***************************************************************************)
(* The continuation and the window's lifetime, checked under SpecTeardown. *)
(***************************************************************************)
\* C30: the game-thread continuation of a scan never touches a destroyed
\* window or an invalid collaborator: when the window is destroyed after
\* the background phase signalled completion and before the continuation
\* runs, the continuation reads or writes no member of the window and
\* dereferences no invalid ReportView; it ends with a status or log entry.
C30_ContinuationTouchesNoDestroyedWindow ==
  rc.window = "destroyed" => (rc.touched = {} /\ rc.outcome = "none")

====
